---- MODULE Spec2Model ----
(***************************************************************************)
(* Model of the Eetlijst client (src/eetlijst/__init__.py): the session    *)
(* and page-cache life cycle of one client object.                         *)
(*                                                                         *)
(* The client is single threaded, so every public method is one action.    *)
(* The remote site is the environment: every network request is answered   *)
(* by some response of Responses.  A method that can issue several         *)
(* requests is therefore a relation; the private methods are operators     *)
(* that map the object to the SET of objects they can leave behind, one    *)
(* per way the remote can answer.  An exception is the field err of the    *)
(* object; once it is set every later statement is skipped.                *)
(*                                                                         *)
(* Time is the variable now, in units of 75 seconds (so that the session   *)
(* lives 4 units and a cached page 2); it only advances between calls.     *)
(***************************************************************************)
EXTENDS Integers, Sequences, FiniteSets, TLC

VARIABLES
    username,   \* self.username
    password,   \* self.password
    session,    \* self.session: NoSession or <<session_id, valid_until>>
    cache,      \* self.cache: a function from cache keys to <<content, valid_until>>
    now,        \* the wall clock read by now()
    last        \* the most recent call: what it was, how it ended, what it did

vars == <<username, password, session, cache, now, last>>

(* ------------------------------ bounds --------------------------------- *)

\* The clock stops advancing here.
MaxTime == 5

(* ----------------------------- constants ------------------------------- *)

TIMEOUT_SESSION == 4

TIMEOUT_CACHE == 2

\* Python's None, where the other values are strings.
None == "None"

\* self.session = None
NoSession == <<>>

\* self.cache = {}
EmptyCache == <<>>

\* The session tokens the remote may issue, and the one a caller may supply.
IssuedTokens == {"t1", "t2"}

SuppliedToken == "t0"

\* The body of the main page the remote serves along with a token.
Content(token) == IF token = "t1" THEN "page1" ELSE "page2"

\* The URL a response ends at, after redirects: its path, and the query
\* parameters r and session_id (None: not in the query; "": blank).
Url(path, r, session_id) == [path |-> path, r |-> r, session_id |-> session_id]

\* What the remote may answer to any request.
Responses ==
    {[status_code |-> 500, url |-> Url("main.php", None, None), content |-> "error"]}
    \cup {[status_code |-> 200, url |-> Url("login.php", r, None), content |-> "login"] :
            r \in {"failed", None}}
    \cup {[status_code |-> 200, url |-> Url("main.php", None, s), content |-> "page1"] :
            s \in {None, ""}}
    \cup {[status_code |-> 200, url |-> Url("main.php", None, t), content |-> Content(t)] :
            t \in IssuedTokens}

(* --------------------------- the client object ------------------------- *)

\* The object a method runs on: its fields, and the bookkeeping of the call:
\* err (the exception raised, "none" while running), ret (the value
\* returned), trace (everything done, in order) and net (the requests sent,
\* with the response each one got).
Self(u, p, s, c) ==
    [username |-> u, password |-> p, session |-> s, cache |-> c,
     err |-> "none", ret |-> None, trace |-> <<>>, net |-> <<>>]

Raise(self, e) == [self EXCEPT !.err = e]

Return(self, v) == [self EXCEPT !.ret = v]

Log(self, what) == [self EXCEPT !.trace = Append(@, what)]

\* requests.get / requests.post: the request is sent and answered by resp.
Request(self, method, path, payload, resp) ==
    [self EXCEPT !.trace = Append(@, method \o " " \o path),
                 !.net = Append(@, [method |-> method, path |-> path,
                                    payload |-> payload, response |-> resp])]

now_ == now

timeout(seconds) == now_ + seconds

\* d1.update(d2) on dictionaries with string keys.
Update(d1, d2) ==
    [k \in DOMAIN d1 \cup DOMAIN d2 |-> IF k \in DOMAIN d2 THEN d2[k] ELSE d1[k]]

\* urlparse.parse_qs(query).get("session_id"): a blank value is dropped by
\* parse_qs, so the result is None or a one-element list.
QuerySessionId(url) ==
    IF url.session_id = None \/ url.session_id = "" THEN <<>> ELSE <<url.session_id>>

\* clear_cache that resets the session and leaves the cache.
clear_cache_SessionOnly(self) ==
    [Log(self, "clear_cache") EXCEPT !.session = NoSession]

\* clear_cache that empties the cache and leaves the session.
clear_cache_CacheOnly(self) ==
    [Log(self, "clear_cache") EXCEPT !.cache = EmptyCache]

clear_cache(self) ==
    [Log(self, "clear_cache") EXCEPT !.session = NoSession, !.cache = EmptyCache]

\* _from_cache that never finds anything.
_from_cache_AlwaysMiss(self, key) == None

_from_cache(self, key) ==
    IF key \notin DOMAIN self.cache THEN None
    ELSE IF now_ < self.cache[key][2] THEN self.cache[key][1]
    ELSE None

\* LoginResponse that takes the session from the URL before it looks at the
\* status code and the failed-login marker.
LoginResponse_StoresFirst(self, response) ==
    LET s1 == IF QuerySessionId(response.url) = <<>> THEN self
              ELSE [self EXCEPT
                      !.session = <<QuerySessionId(response.url)[1],
                                    timeout(TIMEOUT_SESSION)>>,
                      !.cache = Update(@, [main_page |->
                                  <<response.content, timeout(TIMEOUT_CACHE)>>])] IN
    IF response.status_code # 200 THEN Raise(s1, "SessionError")
    ELSE IF response.url.r = "failed" THEN Raise(s1, "LoginError")
    ELSE IF QuerySessionId(response.url) = <<>> THEN Raise(s1, "TypeError")
    ELSE s1

\* The statements of _login after the response has arrived.
LoginResponse(self, response) ==
    IF response.status_code # 200 THEN Raise(self, "SessionError")
    ELSE IF response.url.r = "failed" THEN Raise(self, "LoginError")
    ELSE IF QuerySessionId(response.url) = <<>>
         \* query_array.get("session_id") is None and None[0] is a TypeError,
         \* which the except IndexError clause does not catch.
         THEN Raise(self, "TypeError")
    ELSE [self EXCEPT
            !.session = <<QuerySessionId(response.url)[1], timeout(TIMEOUT_SESSION)>>,
            !.cache = Update(@, [main_page |->
                                   <<response.content, timeout(TIMEOUT_CACHE)>>])]

\* _login that does not verify username and password.
_login_NoCredentialCheck(self) ==
    LET s0 == Log(self, "_login") IN
    {LoginResponse(
         Request(s0, "GET", "login.php",
                 [login |-> s0.username, pass |-> s0.password], resp),
         resp) : resp \in Responses}

_login(self) ==
    LET s0 == Log(self, "_login") IN
    IF s0.username = None /\ s0.password = None
    THEN {Raise(s0, "LoginError")}
    ELSE {LoginResponse(
              Request(s0, "GET", "login.php",
                      [login |-> s0.username, pass |-> s0.password], resp),
              resp) : resp \in Responses}

RECURSIVE _get_session(_, _, _)
\* CheckSession that never looks at the expiry.
CheckSession_NeverExpires(self, is_retry, renew) ==
    {Return(self, self.session[1])}

\* CheckSession that renews an expired session whatever renew says.
CheckSession_IgnoresRenew(self, is_retry, renew) ==
    IF self.session[2] < now_
    THEN IF is_retry THEN {Raise(self, "SessionError")}
         ELSE _get_session([self EXCEPT !.session = NoSession], TRUE, TRUE)
    ELSE {Return(self, self.session[1])}

\* The statements of _get_session from "Check if session is still valid".
CheckSession(self, is_retry, renew) ==
    IF self.session[2] < now_
    THEN IF ~renew THEN {Return(self, None)}
         ELSE IF is_retry THEN {Raise(self, "SessionError")}
         ELSE _get_session([self EXCEPT !.session = NoSession], TRUE, TRUE)
    ELSE {Return(self, self.session[1])}

_get_session(self, is_retry, renew) ==
    LET s0 == Log(self, "_get_session") IN
    IF s0.session = NoSession
    THEN IF ~renew THEN {Return(s0, None)}
         ELSE UNION {IF s1.err # "none" THEN {s1}
                     ELSE CheckSession(s1, is_retry, renew) : s1 \in _login(s0)}
    ELSE CheckSession(s0, is_retry, renew)

\* The payload of a POST before payload.update(data).  "day[]" is "" or an
\* integer in the code; here it is <<>> or <<integer>>.
PostPayload(session_id) ==
    [day |-> <<>>, messageboard |-> "", nieuwetijd |-> "",
     session_id |-> session_id, submittype |-> 2, veranderdag |-> "",
     what |-> -1, who |-> -1]

\* UpdateCacheAndSession that stores the page and leaves the session's
\* expiry as it is.
UpdateCacheAndSession_CacheOnly(self, response) ==
    Return([self EXCEPT
              !.cache = Update(@, [main_page |->
                                     <<response, timeout(TIMEOUT_CACHE)>>])],
           response)

\* UpdateCacheAndSession that moves the session's expiry and does not store
\* the page.
UpdateCacheAndSession_SessionOnly(self, response) ==
    Return([self EXCEPT
              !.session = <<self.session[1], timeout(TIMEOUT_SESSION)>>],
           response)

\* "Update cache and session", the last statements of _main_page.
UpdateCacheAndSession(self, response) ==
    Return([self EXCEPT
              !.session = <<self.session[1], timeout(TIMEOUT_SESSION)>>,
              !.cache = Update(@, [main_page |->
                                     <<response, timeout(TIMEOUT_CACHE)>>])],
           response)

RECURSIVE _main_page(_, _, _, _)
\* MainPageResponse that takes the session id of the response's URL for the
\* session token.
MainPageResponse_AdoptsToken(self, response, is_retry, data, post) ==
    IF response.status_code # 200 THEN {Raise(self, "SessionError")}
    ELSE IF response.url.path = "login.php"
    THEN LET s1 == clear_cache(self) IN
         IF is_retry THEN {Raise(s1, "SessionError")}
         ELSE _main_page(s1, TRUE, data, post)
    ELSE {UpdateCacheAndSession(
              IF QuerySessionId(response.url) = <<>> THEN self
              ELSE [self EXCEPT !.session[1] = QuerySessionId(response.url)[1]],
              response.content)}

\* MainPageResponse without the retry: a redirect to the login page ends the
\* call at once.
MainPageResponse_NoRetry(self, response, is_retry, data, post) ==
    IF response.status_code # 200 THEN {Raise(self, "SessionError")}
    ELSE IF response.url.path = "login.php"
    THEN {Raise(clear_cache(self), "SessionError")}
    ELSE {UpdateCacheAndSession(self, response.content)}

\* The statements of _main_page for a response that came from the network.
MainPageResponse(self, response, is_retry, data, post) ==
    IF response.status_code # 200 THEN {Raise(self, "SessionError")}
    ELSE IF response.url.path = "login.php"
    THEN LET s1 == clear_cache(self) IN
         IF is_retry THEN {Raise(s1, "SessionError")}
         ELSE _main_page(s1, TRUE, data, post)
    ELSE {UpdateCacheAndSession(self, response.content)}

\* MainPageRequest that returns a cached page as it is, without the update
\* of cache and session.
MainPageRequest_NoUpdateOnHit(self, is_retry, data, post) ==
    IF post
    THEN UNION {MainPageResponse(
                    Request(self, "POST", "main.php",
                            Update(PostPayload(self.ret), data), resp),
                    resp, is_retry, data, post) : resp \in Responses}
    ELSE LET cached == _from_cache(self, "main_page") IN
         IF cached # None
         THEN {Return(self, cached)}
         ELSE UNION {MainPageResponse(
                         Request(self, "GET", "main.php",
                                 Update([session_id |-> self.ret], data), resp),
                         resp, is_retry, data, post) : resp \in Responses}

\* MainPageRequest that looks into the cache for a POST as well.
MainPageRequest_CacheForPost(self, is_retry, data, post) ==
    LET cached == _from_cache(self, "main_page") IN
    IF cached # None
    THEN {UpdateCacheAndSession(self, cached)}
    ELSE UNION {MainPageResponse(
                    Request(self, IF post THEN "POST" ELSE "GET", "main.php",
                            IF post THEN Update(PostPayload(self.ret), data)
                            ELSE Update([session_id |-> self.ret], data), resp),
                    resp, is_retry, data, post) : resp \in Responses}

\* The statements of _main_page after self._get_session() has returned.
MainPageRequest(self, is_retry, data, post) ==
    IF post
    THEN UNION {MainPageResponse(
                    Request(self, "POST", "main.php",
                            Update(PostPayload(self.ret), data), resp),
                    resp, is_retry, data, post) : resp \in Responses}
    ELSE LET cached == _from_cache(self, "main_page") IN
         IF cached # None
         THEN {UpdateCacheAndSession(self, cached)}
         ELSE UNION {MainPageResponse(
                         Request(self, "GET", "main.php",
                                 Update([session_id |-> self.ret], data), resp),
                         resp, is_retry, data, post) : resp \in Responses}

_main_page(self, is_retry, data, post) ==
    UNION {IF s1.err # "none" THEN {s1}
           ELSE MainPageRequest(s1, is_retry, data, post) :
           s1 \in _get_session(Log(self, "_main_page"), FALSE, TRUE)}

\* __init__ that tests a given session identifier whatever login says.
__init___AlwaysTests(u, p, session_id, login) ==
    LET s0 == Self(u, p, NoSession, EmptyCache) IN
    IF u = None /\ p = None /\ session_id = None
    THEN {Raise(s0, "LoginError")}
    ELSE IF session_id # None /\ session_id # ""
    THEN _main_page([s0 EXCEPT !.session = <<session_id, timeout(TIMEOUT_SESSION)>>],
                    FALSE, <<>>, FALSE)
    ELSE IF login THEN _get_session(s0, FALSE, TRUE) ELSE {s0}

\* Eetlijst(username, password, session_id, login)
__init__(u, p, session_id, login) ==
    LET s0 == Self(u, p, NoSession, EmptyCache) IN
    IF u = None /\ p = None /\ session_id = None
    THEN {Raise(s0, "LoginError")}
    ELSE IF session_id # None /\ session_id # ""
    THEN LET s1 == [s0 EXCEPT !.session = <<session_id, timeout(TIMEOUT_SESSION)>>] IN
         IF login THEN _main_page(s1, FALSE, <<>>, FALSE) ELSE {s1}
    ELSE IF login THEN _get_session(s0, FALSE, TRUE) ELSE {s0}

(* ------------------------------ the calls ------------------------------ *)

\* The public methods that read the main page.
ReadOps == {"get_name", "get_residents", "get_noticeboard", "get_statuses"}

\* A call is over: the object keeps its fields, last records the call: op and
\* args, err, ret, trace and net as the call left them, the time at of the call,
\* and after_read: whether the call before it was a read that succeeded.
Finish(op, args, self) ==
    /\ username' = self.username
    /\ password' = self.password
    /\ session' = self.session
    /\ cache' = self.cache
    /\ last' = [op |-> op, args |-> args, err |-> self.err, ret |-> self.ret,
                trace |-> self.trace, net |-> self.net, at |-> now,
                after_read |-> last.op \in ReadOps /\ last.err = "none"]
    /\ now' = now

\* The object the next call runs on.
This == Self(username, password, session, cache)

\* A constructor that raised leaves no object to call.
Constructed == ~(last.op = "__init__" /\ last.err # "none")

Init ==
    /\ now = 0
    /\ \E u \in {None, "test"}, p \in {None, "test"},
          session_id \in {None, "", SuppliedToken}, login \in BOOLEAN :
          \E self \in __init__(u, p, session_id, login) :
             /\ username = self.username
             /\ password = self.password
             /\ session = self.session
             /\ cache = self.cache
             /\ last = [op |-> "__init__", args |-> <<u, p, session_id, login>>,
                        err |-> self.err, ret |-> self.ret,
                        trace |-> self.trace, net |-> self.net, at |-> 0,
                        after_read |-> FALSE]

\* get_name, get_residents, get_noticeboard, get_statuses: the page is
\* fetched by _main_page() and then parsed; parsing does not touch the object.
Read ==
    /\ Constructed
    /\ \E op \in ReadOps :
          \E self \in _main_page(This, FALSE, <<>>, FALSE) : Finish(op, <<>>, self)

\* The messages a caller may post on the noticeboard.
Messages == {"hello"}

set_noticeboard(self, message) ==
    _main_page(self, FALSE, [messageboard |-> message], TRUE)

SetNoticeboard ==
    /\ Constructed
    /\ \E message \in Messages :
          \E self \in set_noticeboard(This, message) :
             Finish("set_noticeboard", <<message>>, self)

get_session_id(self) == _get_session(self, FALSE, FALSE)

GetSessionId ==
    /\ Constructed
    /\ \E self \in get_session_id(This) : Finish("get_session_id", <<>>, self)

ClearCache ==
    /\ Constructed
    /\ Finish("clear_cache", <<>>, clear_cache(This))

\* Time passes between two calls.
Tick ==
    /\ now < MaxTime
    /\ now' = now + 1
    /\ UNCHANGED <<username, password, session, cache, last>>

Next == Read \/ SetNoticeboard \/ GetSessionId \/ ClearCache \/ Tick

Spec == Init /\ [][Next]_vars

(* ------------------------------ set_status ----------------------------- *)

\* A status value: <<>> is None, <<v>> the integer v.
NoValue == <<>>

\* The timestamp of a row: tzinfo is None for a naive datetime; t is the
\* time it points to, on the clock of now.
Timestamp(tzinfo, t) == [tzinfo |-> tzinfo, t |-> t]

\* The form fields that _request(what) posts.
StatusData(resident_index, timestamp, what) ==
    [day |-> <<timestamp.t>>, submittype |-> 0,
     submitwithform_x |-> 20, submitwithform_y |-> 20,
     what |-> what, who |-> resident_index]

\* Strategy that posts every value in one request.
Strategy_OneRequest(value) ==
    IF value = NoValue THEN <<-5>> ELSE <<value[1]>>

\* The strategy for advancing to value: the values of what, in order.
Strategy(value) ==
    IF value = NoValue THEN <<-5>>
    ELSE IF value[1] = -5 THEN <<-3, -4, -4>>
    ELSE IF value[1] = -4 THEN <<-3, -4>>
    ELSE IF value[1] = 4 THEN <<3, 4>>
    ELSE <<value[1]>>

\* The residents, the status values and the timestamps a caller may pass.
ResidentIndices == {0, 1}

StatusValues == {NoValue, <<-5>>, <<-4>>, <<4>>, <<1>>, <<0>>}

Timestamps ==
    {Timestamp(None, MaxTime + 1), Timestamp("UTC", 0), Timestamp("UTC", MaxTime + 1)}

\* The calls that post to the main page.
WriteOps == {"set_status", "set_noticeboard"}

\* InProgress that goes on after a request has raised.
InProgress_IgnoresError == last.op = "set_status" /\ last.todo # <<>>

\* set_status is between two of its requests: the client is single
\* threaded, so no other call starts until it is over.  A request that
\* raises ends set_status: nothing catches the exception.
InProgress == last.op = "set_status" /\ last.err = "none" /\ last.todo # <<>>

\* What one request of a step was: its method and path, whether the answer
\* was a page (status 200, not the login page), and for a POST the fields
\* what, day and who of its payload.
Summary(request) ==
    LET page == /\ request.response.status_code = 200
                /\ request.response.url.path # "login.php" IN
    IF request.method = "POST"
    THEN <<"POST", request.path, page, request.payload.what,
           request.payload.day, request.payload.who>>
    ELSE <<request.method, request.path, page>>

\* InvalidTimestamp that only looks at the time zone.
InvalidTimestamp_TzOnly(timestamp) == timestamp.tzinfo = None

\* The two tests set_status starts with: each raises ValueError.
InvalidTimestamp(timestamp) ==
    timestamp.tzinfo = None \/ timestamp.t < now_

\* SpecWrite follows a client up to and including its first call, a write.
FirstCall == last.op = "__init__"

\* set_status up to its first _request: the timestamp is verified and the
\* strategy picked.  last.todo are the values of what still to be posted,
\* last.sent the requests of the steps done so far and last.steps the same
\* requests, step by step; last.fresh and
\* last.active tell whether the cache held a valid main page and whether
\* the session was valid when the call began.
SetStatus ==
    /\ Constructed /\ FirstCall
    /\ \E resident_index \in ResidentIndices, value \in StatusValues,
          timestamp \in Timestamps :
          LET invalid == InvalidTimestamp(timestamp) IN
          last' = [op |-> "set_status",
                   args |-> <<resident_index, value, timestamp>>,
                   err |-> IF invalid THEN "ValueError" ELSE "none",
                   ret |-> None, trace |-> <<"set_status">>, net |-> <<>>,
                   at |-> now, after_read |-> FALSE,
                   todo |-> IF invalid THEN <<>> ELSE Strategy(value),
                   sent |-> <<>>, steps |-> <<>>,
                   fresh |-> _from_cache(This, "main_page") # None,
                   active |-> session # NoSession /\ ~(session[2] < now_)]
    /\ UNCHANGED <<username, password, session, cache, now>>

\* The next _request(what) of set_status: one call of _main_page.
SetStatusRequest ==
    /\ InProgress
    /\ \E self \in _main_page(This, FALSE,
                               StatusData(last.args[1], last.args[3], Head(last.todo)),
                               TRUE) :
          /\ username' = self.username
          /\ password' = self.password
          /\ session' = self.session
          /\ cache' = self.cache
          /\ last' = [last EXCEPT
                        !.err = self.err,
                        !.trace = self.trace,
                        !.net = self.net,
                        !.todo = Tail(@),
                        !.sent = @ \o [i \in DOMAIN self.net |-> Summary(self.net[i])],
                        !.steps = Append(@, [i \in DOMAIN self.net |->
                                                Summary(self.net[i])])]
    /\ now' = now

\* The calls of a client that writes.
SetNoticeboardW == FirstCall /\ SetNoticeboard

TickW == ~InProgress /\ Tick

NextWrite == SetStatus \/ SetStatusRequest \/ SetNoticeboardW \/ TickW

SpecWrite == Init /\ [][NextWrite]_vars

(* ------------------------------- scraping ------------------------------ *)

\* The most images of one kind in a cell, the most residents and the most
\* rows of a page.
MaxMarkers == 2

MaxResidents == 2

MaxRows == 3

\* A cell of the status table: how often each image occurs in its markup,
\* digits, the numbers RE_DIGIT finds in its text, in order, and changed,
\* what RE_LAST_CHANGED captures in its markup: <<>> if it does not match,
\* else <<int(hour), int(minute)>>.
Cell(nop, kook, eet, leeg, digits) ==
    [nop |-> nop, kook |-> kook, eet |-> eet, leeg |-> leeg, digits |-> digits,
     changed |-> <<>>]

\* The cell with the text "onveranderd sinds hour:minute" in its markup.
Changed(cell, hm) == [cell EXCEPT !.changed = hm]

\* A row of the table: th tells whether it holds header cells; vs and k are
\* what RE_JAVASCRIPT_VS_2 and RE_JAVASCRIPT_K capture in its markup: <<>>
\* if the pattern does not match, else <<group 1>>, a string of digits that
\* may be empty; cells are its td elements.  A row whose vs matches has an
\* href that matches RE_JAVASCRIPT_VS_1.
Row(th, vs, k, cells) == [th |-> th, vs |-> vs, k |-> k, cells |-> cells]

\* A main page: marker tells whether the cell of width 80 is there, headers
\* are the th and a elements that carry a title (matches: the title matches
\* RE_RESIDENTS), rows the tr elements of the table, in document order.
Page(marker, headers, rows) == [marker |-> marker, headers |-> headers, rows |-> rows]

\* int(s) for the strings of digits of the pages; int("") raises ValueError.
\* A timestamp counts the minutes since the epoch.
ParseInt(s) ==
    CASE s = "1" -> 1 [] s = "2" -> 2 [] s = "3" -> 3
      [] s = "1380" -> 1380 [] s = "1500" -> 1500 [] s = "5640" -> 5640

\* A day in minutes.
MinutesPerDay == 24 * 60

\* TZ_EETLIJST: Europe/Amsterdam is one hour ahead of UTC, and two hours from
\* the day daylight saving time starts, at 01:00 UTC.
DstStart == 3 * MinutesPerDay + 60

utcoffset(t) == IF t < DstStart THEN 60 ELSE 120

\* timestamp.replace(hour=0, minute=0, second=0, microsecond=0) of a
\* datetime in UTC.
UtcMidnight(timestamp) == timestamp - (timestamp % MinutesPerDay)

\* Midnight that starts the local calendar day of the timestamp.
Midnight_LocalDay(timestamp) ==
    UtcMidnight(timestamp + utcoffset(timestamp)) - utcoffset(timestamp)

\* midnight: the UTC midnight of the timestamp, minus the difference with
\* Europe/Amsterdam at the timestamp.
Midnight(timestamp) == UtcMidnight(timestamp) - utcoffset(timestamp)

\* A datetime or None: <<>> is None, <<t>> the time t.
NoTime == <<>>

\* LastChanged that parses the text in every row.
LastChanged_EveryRow(results, timestamp, cell) ==
    IF cell.changed # <<>>
    THEN <<Midnight(timestamp) + (cell.changed[1] * 60 + cell.changed[2])>>
    ELSE <<Midnight(timestamp)>>

\* "Parse last changed": the last_changed of a cell of the row with the
\* timestamp, when results holds the rows parsed before it.
LastChanged(results, timestamp, cell) ==
    IF Len(results) = 0
    THEN IF cell.changed # <<>>
         THEN <<Midnight(timestamp) + (cell.changed[1] * 60 + cell.changed[2])>>
         ELSE <<Midnight(timestamp)>>
    ELSE NoTime

\* get_residents after the page has been fetched.
get_residents(page) ==
    LET residents == SelectSeq(page.headers, LAMBDA x : x.matches) IN
    [i \in DOMAIN residents |-> residents[i].name]

\* Classify that counts the diners of a cell without a cook as it counts
\* those of a cell with one.
Classify_Unsigned(cell) ==
    LET extra == IF cell.digits # <<>> THEN cell.digits[1] ELSE 1 IN
    IF cell.nop > 0 THEN [err |-> "none", value |-> <<0>>]
    ELSE IF cell.kook > 0 /\ cell.eet = 0
    THEN [err |-> "none", value |-> <<cell.kook>>]
    ELSE IF cell.kook > 0 \/ cell.eet > 0
    THEN [err |-> "none", value |-> <<cell.kook + (cell.eet * extra)>>]
    ELSE IF cell.leeg > 0 THEN [err |-> "none", value |-> NoValue]
    ELSE [err |-> "ScrapingError", value |-> NoValue]

\* Classify that takes every cell with a cook for cooks only.
Classify_CooksOnly(cell) ==
    LET extra == IF cell.digits # <<>> THEN cell.digits[1] ELSE 1 IN
    IF cell.nop > 0 THEN [err |-> "none", value |-> <<0>>]
    ELSE IF cell.kook > 0 THEN [err |-> "none", value |-> <<cell.kook>>]
    ELSE IF cell.eet > 0 THEN [err |-> "none", value |-> <<-1 * (cell.eet * extra)>>]
    ELSE IF cell.leeg > 0 THEN [err |-> "none", value |-> NoValue]
    ELSE [err |-> "ScrapingError", value |-> NoValue]

\* "Set the data": the value of a cell, or the error raised.
Classify(cell) ==
    LET extra == IF cell.digits # <<>> THEN cell.digits[1] ELSE 1 IN
    IF cell.nop > 0 THEN [err |-> "none", value |-> <<0>>]
    ELSE IF cell.kook > 0 /\ cell.eet = 0
    THEN [err |-> "none", value |-> <<cell.kook>>]
    ELSE IF cell.kook > 0 /\ cell.eet > 0
    THEN [err |-> "none", value |-> <<cell.kook + (cell.eet * extra)>>]
    ELSE IF cell.eet > 0 THEN [err |-> "none", value |-> <<-1 * (cell.eet * extra)>>]
    ELSE IF cell.leeg > 0 THEN [err |-> "none", value |-> NoValue]
    ELSE [err |-> "ScrapingError", value |-> NoValue]

\* A limit: <<>> is None, <<n>> the integer n.
NoLimit == <<>>

\* LimitReached that stops one row late.
LimitReached_OneLate(limit, results) ==
    limit # NoLimit /\ limit[1] # 0 /\ Len(results) > limit[1]

\* "Check for limit": limit and len(results) >= limit.
LimitReached(limit, results) ==
    limit # NoLimit /\ limit[1] # 0 /\ Len(results) >= limit[1]

\* Start that takes every list for one without deadlines.
Start_NoDeadline(has_deadline) == 1

\* The number of leading cells that hold no status.
Start(has_deadline) == IF has_deadline THEN 2 ELSE 1

\* The statuses of a row: the cells from index start on, classified.
Statuses(row, start) ==
    [j \in 1..(Len(row.cells) - start) |-> Classify(row.cells[j + start])]

\* HasDeadline that looks for the deadline link in every row.
HasDeadline_EveryRow(results, row, has_deadline) == row.vs # <<>>

\* "Check if the list uses deadlines": has_deadline after the test on the
\* row, when results holds the rows parsed before it.
HasDeadline(results, row, has_deadline) ==
    IF Len(results) = 0 THEN row.vs # <<>> ELSE has_deadline

RECURSIVE ParseRows(_, _, _, _, _)
\* The loop over the rows from row i on; the result is the error raised
\* and, if there is none, the rows returned.
ParseRows(rows, i, limit, results, has_deadline) ==
    IF i > Len(rows) THEN [err |-> "none", ret |-> results]
    ELSE IF LimitReached(limit, results) THEN [err |-> "none", ret |-> results]
    ELSE IF rows[i].th THEN ParseRows(rows, i + 1, limit, results, has_deadline)
    ELSE LET row == rows[i]
             deadline == HasDeadline(results, row, has_deadline)
             start == Start(deadline)
             matches == IF deadline THEN row.vs ELSE row.k
             statuses == Statuses(row, start)
         IN
         IF matches = <<>> THEN [err |-> "AttributeError", ret |-> <<>>]
         ELSE IF matches[1] = "" THEN [err |-> "ValueError", ret |-> <<>>]
         ELSE IF \E j \in DOMAIN statuses : statuses[j].err # "none"
         THEN [err |-> "ScrapingError", ret |-> <<>>]
         ELSE ParseRows(rows, i + 1, limit,
                        Append(results,
                               [timestamp |-> ParseInt(matches[1]),
                                deadline |-> IF deadline THEN <<ParseInt(matches[1])>>
                                             ELSE <<>>,
                                statuses |-> [j \in DOMAIN statuses |->
                                    [value |-> statuses[j].value,
                                     last_changed |->
                                        LastChanged(results, ParseInt(matches[1]),
                                                    row.cells[j + start])]]]),
                        deadline)

\* get_statuses after the page has been fetched.
get_statuses(page, limit) ==
    IF ~page.marker THEN [err |-> "ScrapingError", ret |-> <<>>]
    ELSE ParseRows(page.rows, 1, limit, <<>>, FALSE)

(* ------------------------- the pages of a list ------------------------- *)

\* The numbers RE_DIGIT may find in the text of a cell.
Extras == {<<>>, <<0>>, <<3>>, <<2, 7>>}

Cells ==
    {Cell(nop, kook, eet, leeg, digits) :
        nop \in 0..MaxMarkers, kook \in 0..MaxMarkers, eet \in 0..MaxMarkers,
        leeg \in 0..MaxMarkers, digits \in Extras}

\* A cell that holds no status: the date of the row, or its deadline.
LeadCell == Cell(0, 0, 0, 0, <<>>)

\* The titled elements of a page with n residents: the list's own link and
\* one header per resident.
Headers(n) ==
    [i \in 1..(n + 1) |->
        IF i = 1 THEN [matches |-> FALSE, name |-> "Eetlijst"]
        ELSE [matches |-> TRUE,
              name |-> CASE i = 2 -> "Unknown1" [] i = 3 -> "Unknown2"
                         [] OTHER -> "Unknown3"]]

\* The status cell of resident j in the rows of the pages below.
StatusCellAt(j) ==
    CASE j % 3 = 1 -> Cell(0, 1, 0, 0, <<>>)
      [] j % 3 = 2 -> Cell(0, 0, 2, 0, <<3>>)
      [] OTHER -> Cell(0, 0, 0, 1, <<>>)

\* The rows a page is made of: a header row; a data row for the day 1, 2 or
\* 3 (in the deadline layout it has two leading cells and the deadline link,
\* else one leading cell); a row without any link; a row whose links hold
\* an empty number; and a row with a cell that has no image.
RowKinds == {"header", "day1", "day2", "nolink", "nonumber", "noimage"}

RowOf(kind, deadline, n) ==
    LET lead == IF deadline THEN <<LeadCell, LeadCell>> ELSE <<LeadCell>>
        cells == lead \o [j \in 1..n |-> StatusCellAt(j)]
        link(d) == Row(FALSE, IF deadline THEN <<d>> ELSE <<>>, <<d>>, cells)
    IN
    CASE kind = "header" -> Row(TRUE, <<>>, <<>>, <<>>)
      [] kind = "day1" -> link("1")
      [] kind = "day2" -> link("2")
      [] kind = "nolink" -> Row(FALSE, <<>>, <<>>, cells)
      [] kind = "nonumber" -> link("")
      [] OTHER -> [link("3") EXCEPT !.cells = lead \o [j \in 1..n |-> LeadCell]]

\* The timestamps of the pages with "onveranderd sinds": 00:01 UTC; 23:00 UTC,
\* which is midnight in Amsterdam in winter; 01:00 UTC on the next day; and
\* 22:00 UTC, which is midnight in Amsterdam in summer.
Days == {"1", "1380", "1500", "5640"}

\* What RE_LAST_CHANGED may capture in a cell.
ChangedTexts == {<<>>, <<0, 30>>, <<12, 30>>}

\* A row of three cells that holds the link of day 2, and the deadline link
\* of day 1 if vs says so.
MixedRow(vs) ==
    Row(FALSE, IF vs THEN <<"1">> ELSE <<>>, <<"2">>,
        <<LeadCell, StatusCellAt(1), StatusCellAt(2)>>)

\* The pages the remote may serve: every page of up to MaxRows such rows; for
\* every cell a page whose one row holds that cell; for every timestamp of
\* Days and every text of ChangedTexts a page of two days whose cells hold
\* that text; and the pages of two rows of which each may hold the deadline
\* link or not.
Pages ==
    {Page(marker, Headers(n), [i \in DOMAIN kinds |-> RowOf(kinds[i], deadline, n)]) :
        marker \in BOOLEAN, deadline \in BOOLEAN, n \in 1..MaxResidents,
        kinds \in UNION {[1..len -> RowKinds] : len \in 0..MaxRows}}
    \cup {Page(TRUE, Headers(1), <<Row(FALSE, <<>>, <<"1">>, <<LeadCell, cell>>)>>) :
            cell \in Cells}
    \cup {Page(TRUE, Headers(1),
                <<Row(FALSE, <<>>, <<d>>, <<LeadCell, Changed(StatusCellAt(1), hm)>>),
                  Row(FALSE, <<>>, <<"2">>, <<LeadCell, Changed(StatusCellAt(1), hm)>>)>>) :
            d \in Days, hm \in ChangedTexts}
    \cup {Page(TRUE, Headers(1), <<MixedRow(vs1), MixedRow(vs2)>>) :
            vs1 \in BOOLEAN, vs2 \in BOOLEAN}

\* The limits a caller may pass to get_statuses.
Limits == {NoLimit, <<-1>>, <<0>>, <<1>>, <<2>>}

(* ------------------------------ StatusRow ------------------------------ *)

\* The most statuses of a row.
MaxStatuses == 3

Status(value, last_changed) == [value |-> value, last_changed |-> last_changed]

StatusRow(timestamp, deadline, statuses) ==
    [timestamp |-> timestamp, deadline |-> deadline, statuses |-> statuses]

\* The outcome of a method or of a test function: the exception raised
\* ("none" if it returned) and the value returned.
Raised(e) == [err |-> e, ret |-> <<>>]

Returned(v) == [err |-> "none", ret |-> v]

\* lambda x: x.value > 0.  None > 0 is a TypeError.
IsCook(x) ==
    IF x.value = NoValue THEN [err |-> "TypeError", ret |-> FALSE]
    ELSE Returned(x.value[1] > 0)

\* lambda x: x.value < 0 and x.value is not None.  The comparison comes
\* first, and None < 0 is a TypeError.
IsDiner(x) ==
    IF x.value = NoValue THEN [err |-> "TypeError", ret |-> FALSE]
    ELSE Returned(x.value[1] < 0 /\ x.value # NoValue)

\* lambda x: x.value == 0.  None == 0 is False.
IsNone(x) == Returned(x.value # NoValue /\ x.value[1] = 0)

\* lambda x: x.value is None.
IsUnknown(x) == Returned(x.value = NoValue)

\* The statuses of a row; a test function is given as its value on each.
Items(self) == {self.statuses[i] : i \in DOMAIN self.statuses}

\* _extract: the indices, from 0, of the statuses the test holds for, in the
\* order of the list; the test's exception ends the loop.
_extract(self, test_func) ==
    LET n == Len(self.statuses) IN
    IF \E i \in 1..n : test_func[self.statuses[i]].err # "none"
    THEN Raised(test_func[self.statuses[
                    CHOOSE i \in 1..n : test_func[self.statuses[i]].err # "none"]].err)
    ELSE Returned(SelectSeq([i \in 1..n |-> i - 1],
                            LAMBDA index : test_func[self.statuses[index + 1]].ret))

get_cooks(self) == _extract(self, [x \in Items(self) |-> IsCook(x)])

get_diners(self) == _extract(self, [x \in Items(self) |-> IsDiner(x)])

get_nones(self) == _extract(self, [x \in Items(self) |-> IsNone(x)])

get_unknowns(self) == _extract(self, [x \in Items(self) |-> IsUnknown(x)])

\* a + b on the results of two calls, the left one made first.
Concat(a, b) ==
    IF a.err # "none" THEN a
    ELSE IF b.err # "none" THEN b
    ELSE Returned(a.ret \o b.ret)

get_diners_and_cooks(self) == Concat(get_cooks(self), get_diners(self))

get_nones_and_unknowns(self) == Concat(get_nones(self), get_unknowns(self))

\* indices of get_count: <<>> is None, <<list>> the list of indices.
NoIndices == <<>>

\* statuses[index] of a Python list: a negative index counts from the end.
InRange(statuses, index) ==
    index < Len(statuses) /\ index >= 0 - Len(statuses)

Item(statuses, index) ==
    IF index >= 0 THEN statuses[index + 1] ELSE statuses[Len(statuses) + index + 1]

RECURSIVE CountFrom(_, _, _)
\* The loop of get_count from status i on.
CountFrom(statuses, i, count) ==
    IF i > Len(statuses) THEN count
    ELSE LET value == statuses[i].value IN
         CountFrom(statuses, i + 1,
                   IF value = NoValue THEN count
                   ELSE IF value[1] < 0 THEN count + (-1 * value[1])
                   ELSE IF value[1] > 0 THEN count + value[1]
                   ELSE count)

\* The loop of get_count over the statuses.
Counted(statuses) == CountFrom(statuses, 1, 0)

get_count(self, indices) ==
    IF indices = NoIndices THEN Returned(Counted(self.statuses))
    ELSE IF \E k \in DOMAIN indices[1] : ~InRange(self.statuses, indices[1][k])
    THEN Raised("IndexError")
    ELSE Returned(Counted([k \in DOMAIN indices[1] |->
                              Item(self.statuses, indices[1][k])]))

\* has_deadline_passed: self.deadline < now() if there is a deadline.
has_deadline_passed(self) ==
    IF self.deadline # NoTime THEN self.deadline[1] < now_ ELSE FALSE

(* ---------------------------- the rows of a list ----------------------- *)

\* The values of the statuses of a row.
RowValues == {NoValue, <<-3>>, <<-1>>, <<0>>, <<1>>, <<11>>}

StatusRows ==
    {StatusRow(2, deadline, [i \in DOMAIN values |-> Status(values[i], NoTime)]) :
        deadline \in {NoTime, <<2>>},
        values \in UNION {[1..len -> RowValues] : len \in 0..MaxStatuses}}

\* The lists of indices a caller may pass to get_count for a row: what the
\* methods of the row return, and the lists of one index, in or out of range.
IndexLists(self) ==
    {r.ret : r \in {q \in {get_cooks(self), get_diners(self), get_nones(self),
                              get_unknowns(self)} : q.err = "none"}}
    \cup {<<index>> : index \in (0 - 1)..Len(self.statuses)}

\* A row has been constructed; last.self is the row the methods run on.
InitRow ==
    /\ now = 0
    /\ username = "test"
    /\ password = "test"
    /\ session = NoSession
    /\ cache = EmptyCache
    /\ \E self \in StatusRows :
          last = [op |-> "StatusRow", args |-> <<>>, self |-> self,
                  err |-> "none", ret |-> <<>>]

\* A method of the row has been called: the row is as it was.
Called(op, args, result) ==
    /\ last' = [op |-> op, args |-> args, self |-> last.self,
                err |-> result.err, ret |-> result.ret]
    /\ UNCHANGED <<username, password, session, cache, now>>

GetCooks == Called("get_cooks", <<>>, get_cooks(last.self))

GetDiners == Called("get_diners", <<>>, get_diners(last.self))

GetNones == Called("get_nones", <<>>, get_nones(last.self))

GetUnknowns == Called("get_unknowns", <<>>, get_unknowns(last.self))

GetDinersAndCooks ==
    Called("get_diners_and_cooks", <<>>, get_diners_and_cooks(last.self))

GetNonesAndUnknowns ==
    Called("get_nones_and_unknowns", <<>>, get_nones_and_unknowns(last.self))

GetCount ==
    \E indices \in {NoIndices} \cup {<<list>> : list \in IndexLists(last.self)} :
       Called("get_count", <<indices>>, get_count(last.self, indices))

NextRow ==
    \/ GetCooks \/ GetDiners \/ GetNones \/ GetUnknowns
    \/ GetDinersAndCooks \/ GetNonesAndUnknowns \/ GetCount

SpecRow == InitRow /\ [][NextRow]_vars

(* --------------------------- reading the list -------------------------- *)

\* A client that has just been constructed from a session token with
\* login=True, before the days of the page or after them: the remote has
\* answered its GET with a page of Pages, which is now in the cache.
InitScrape ==
    /\ now \in {0, MaxTime}
    /\ username = "test"
    /\ password = "test"
    /\ session = <<SuppliedToken, timeout(TIMEOUT_SESSION)>>
    /\ \E page \in Pages : cache = [main_page |-> <<page, timeout(TIMEOUT_CACHE)>>]
    /\ last = [op |-> "__init__", args |-> <<"test", "test", SuppliedToken, TRUE>>,
               err |-> "none", ret |-> <<>>, at |-> now]

\* The page a read works on: _main_page returns the cached page, and leaves
\* session and cache with the expiries they have.
CachedPage == cache["main_page"][1]

GetStatuses ==
    /\ \E limit \in Limits :
          LET result == get_statuses(CachedPage, limit) IN
          last' = [op |-> "get_statuses", args |-> <<limit>>,
                   err |-> result.err, ret |-> result.ret, at |-> now]
    /\ UNCHANGED <<username, password, session, cache, now>>

GetResidents ==
    /\ last' = [op |-> "get_residents", args |-> <<>>,
                err |-> "none", ret |-> get_residents(CachedPage), at |-> now]
    /\ UNCHANGED <<username, password, session, cache, now>>

\* has_deadline_passed() on a row that get_statuses has returned.
HasDeadlinePassed ==
    /\ last.op = "get_statuses" /\ last.err = "none"
    /\ \E i \in DOMAIN last.ret :
          last' = [op |-> "has_deadline_passed", args |-> <<>>, self |-> last.ret[i],
                   err |-> "none", ret |-> has_deadline_passed(last.ret[i]),
                   at |-> now]
    /\ UNCHANGED <<username, password, session, cache, now>>

NextScrape == GetStatuses \/ GetResidents \/ HasDeadlinePassed

SpecScrape == InitScrape /\ [][NextScrape]_vars

(* ------------------------- reading a call's record --------------------- *)

\* How often x occurs in the sequence seq.
Count(seq, x) == Cardinality({i \in DOMAIN seq : seq[i] = x})

\* The requests of call l that went to path.
Sent(l, path) == {i \in DOMAIN l.net : l.net[i].path = path}

\* The response sends the client to the login page: the session is invalid.
RedirectsToLogin(response) ==
    response.status_code = 200 /\ response.url.path = "login.php"

\* The response is one that _login takes a session token from.
IssuesToken(response) ==
    /\ response.status_code = 200
    /\ response.url.r # "failed"
    /\ QuerySessionId(response.url) # <<>>

\* The response is a page that _main_page accepts.
IsPage(response) ==
    response.status_code = 200 /\ response.url.path # "login.php"

\* The first request of call l was a main-page request, so it was sent with
\* a session that had not expired locally, and it was answered by a redirect
\* to the login page.
FirstRequestRedirected(l) ==
    /\ l.net # <<>>
    /\ l.net[1].path = "main.php"
    /\ RedirectsToLogin(l.net[1].response)

\* The calls that end in _main_page.
MainPageOps == ReadOps \cup {"set_noticeboard"}

\* The client has something to log in with (_login's own test).
HasCredentials == ~(username = None /\ password = None)

\* The stored session has not expired locally / has expired locally.
SessionValid == session # NoSession /\ ~(session[2] < now)

SessionExpired == session # NoSession /\ session[2] < now

\* The cache holds a main page whose time to live has elapsed.
CacheElapsed == "main_page" \in DOMAIN cache /\ ~(now < cache["main_page"][2])

\* The position in l.trace of the i-th request of l.net.
RequestNames == {"GET login.php", "GET main.php", "POST main.php"}

RequestPos(l, i) ==
    CHOOSE k \in DOMAIN l.trace :
        /\ l.trace[k] \in RequestNames
        /\ Cardinality({j \in 1..k : l.trace[j] \in RequestNames}) = i

(* -------------------------------- C1 ----------------------------------- *)

\* C1 as stated: a main-page request sent with a locally unexpired session
\* and answered by a redirect to the login page is sent again exactly once,
\* after exactly one re-login with the stored credentials, and the call ends
\* in success or SessionError.
C1_Original ==
    (/\ FirstRequestRedirected(last)
     /\ Len(last.net) >= 2
     /\ last.net[2].path = "login.php"
     /\ IssuesToken(last.net[2].response)) =>
        /\ Cardinality(Sent(last, "main.php")) = 2
        /\ Cardinality(Sent(last, "login.php")) = 1
        /\ last.err \in {"none", "SessionError"}

\* C1, amended: after such a redirect _main_page runs exactly once more, after
\* exactly one call of _login, and never a third time.  A login that raises
\* ends the call with its error (LoginError without credentials, before any
\* login request; else LoginError, SessionError or TypeError as the login
\* response decides).  After a login that succeeds a POST is sent again
\* exactly once, with the new token, and the call ends in success or
\* SessionError; a GET is not sent again: it is answered from the page the
\* login cached, and succeeds.
C1_RetryOnce ==
    FirstRequestRedirected(last) =>
        /\ Count(last.trace, "_main_page") = 2
        /\ Count(last.trace, "_login") = 1
        /\ Len(last.net) <= 3
        /\ IF Len(last.net) = 1
           THEN /\ username = None /\ password = None
                /\ last.err = "LoginError"
           ELSE /\ last.net[2].path = "login.php"
                /\ ~(username = None /\ password = None)
                /\ IF ~IssuesToken(last.net[2].response)
                   THEN /\ Len(last.net) = 2
                        /\ last.err = LoginResponse(This, last.net[2].response).err
                        /\ last.err \in {"LoginError", "SessionError", "TypeError"}
                   ELSE IF last.net[1].method = "GET"
                   THEN /\ Len(last.net) = 2
                        /\ last.err = "none"
                        /\ last.ret = last.net[2].response.content
                   ELSE /\ Len(last.net) = 3
                        /\ last.net[3].method = "POST"
                        /\ last.net[3].path = "main.php"
                        /\ last.net[3].payload =
                              [last.net[1].payload EXCEPT
                                 !.session_id = last.net[2].response.url.session_id]
                        /\ last.err = IF IsPage(last.net[3].response)
                                      THEN "none" ELSE "SessionError"

\* A POST was redirected, sent again after the re-login, and redirected again:
\* the call ended there.
C1_Witness ==
    /\ FirstRequestRedirected(last)
    /\ Len(last.net) = 3
    /\ RedirectsToLogin(last.net[3].response)
    /\ last.err = "SessionError"

(* -------------------------------- C2 ----------------------------------- *)

\* A read that directly follows a successful read, within the cache's time
\* to live of that read, neither of them redirected to the login page.
C2_Case ==
    /\ now' = now
    /\ last.op \in ReadOps /\ last.err = "none"
    /\ last'.op \in ReadOps
    /\ now < last.at + TIMEOUT_CACHE
    /\ \A i \in DOMAIN last.net : ~RedirectsToLogin(last.net[i].response)
    /\ \A i \in DOMAIN last'.net : ~RedirectsToLogin(last'.net[i].response)

\* C2 as stated: two such reads issue exactly one network request in total,
\* and the second issues none.
C2_Original ==
    [][C2_Case => (/\ Len(last.net) + Len(last'.net) = 1
                   /\ last'.net = <<>>)]_vars

\* C2, amended: the second read issues no request, succeeds and returns the
\* page the first returned; the two reads issue at most one request in
\* total: exactly one if the first had to fetch the page (by a login or by
\* a GET), none if the first was itself served from the cache.
C2_SecondReadCached ==
    [][C2_Case => (/\ last'.net = <<>>
                   /\ last'.err = "none"
                   /\ last'.ret = last.ret
                   /\ last'.trace = <<"_main_page", "_get_session">>
                   /\ Len(last.net) + Len(last'.net) <= 1
                   /\ (Len(last.net) = 0) <=>
                        (last.trace = <<"_main_page", "_get_session">>))]_vars

\* The second of two reads in a row was served from the cache.
C2_Witness ==
    /\ last.op \in ReadOps /\ last.err = "none"
    /\ last.after_read
    /\ last.net = <<>>

(* -------------------------------- C3 ----------------------------------- *)

\* A read, made when the time to live of the cached main page has elapsed.
C3_Case == CacheElapsed /\ now' = now /\ last'.op \in ReadOps

\* What a read that succeeded leaves: the page it returned, cached until
\* now + TIMEOUT_CACHE, and a session that expires at now + TIMEOUT_SESSION.
C3_Refreshed ==
    last'.err = "none" =>
        /\ cache' = [main_page |-> <<last'.ret, now + TIMEOUT_CACHE>>]
        /\ session' # NoSession
        /\ session'[2] = now + TIMEOUT_SESSION
        /\ last'.ret = last'.net[Len(last'.net)].response.content

\* C3 as stated: such a read issues a network request, and after it returns
\* the cache entry and the session expire at now + their timeouts.
C3_Original ==
    [][C3_Case => (last'.net # <<>> /\ C3_Refreshed)]_vars

\* C3, amended: such a read issues a network request (GET main.php with the
\* session id if the session has not expired, else the login request, whose
\* response is the main page), and after it returns the cache entry and the
\* session expire at now + their timeouts; except that a client without
\* username and password whose session has expired or is gone issues no
\* request: the read raises LoginError.
C3_RefetchAfterTtl ==
    [][C3_Case =>
        /\ IF SessionValid
           THEN /\ last'.net # <<>>
                /\ last'.net[1].method = "GET"
                /\ last'.net[1].path = "main.php"
                /\ last'.net[1].payload = [session_id |-> session[1]]
           ELSE IF HasCredentials
           THEN /\ last'.net # <<>>
                /\ last'.net[1].path = "login.php"
           ELSE /\ last'.net = <<>>
                /\ last'.err = "LoginError"
        /\ C3_Refreshed]_vars

\* A read directly after a successful read had to send GET main.php, so the
\* page the earlier read cached had run out; the read refreshed both expiries.
C3_Witness ==
    /\ last.op \in ReadOps /\ last.err = "none"
    /\ last.after_read
    /\ last.at = now
    /\ Len(last.net) = 1
    /\ last.net[1].path = "main.php"
    /\ cache = [main_page |-> <<last.ret, now + TIMEOUT_CACHE>>]
    /\ session[2] = now + TIMEOUT_SESSION

(* -------------------------------- C4 ----------------------------------- *)

\* Call l got a main-page response that reveals the session to be invalid.
HasRedirect(l) ==
    \E i \in DOMAIN l.net :
        l.net[i].path = "main.php" /\ RedirectsToLogin(l.net[i].response)

\* In call l clear_cache directly follows every such response, and
\* clear_cache leaves neither a session nor a cache entry.
ClearsAtOnce(l) ==
    /\ \A i \in DOMAIN l.net :
          (l.net[i].path = "main.php" /\ RedirectsToLogin(l.net[i].response)) =>
              /\ RequestPos(l, i) < Len(l.trace)
              /\ l.trace[RequestPos(l, i) + 1] = "clear_cache"
    /\ clear_cache(This).session = NoSession
    /\ clear_cache(This).cache = EmptyCache

\* The last request of call l was a main-page request that got an unexpected
\* status code.
LastFailedOnStatus(l) ==
    /\ l.net[Len(l.net)].path = "main.php"
    /\ l.net[Len(l.net)].response.status_code # 200

\* C4 as stated: a response that reveals an invalid session is followed at
\* once by dropping the session and the whole cache, and if the call then
\* fails the client has no session and an empty cache.
C4_Original ==
    HasRedirect(last) =>
        /\ ClearsAtOnce(last)
        /\ last.err # "none" => (session = NoSession /\ cache = EmptyCache)

\* C4, amended: a response that reveals an invalid session is followed at
\* once by dropping the session and the whole cache.  If the call then fails
\* in the re-login or on a second redirect, the client has no session and an
\* empty cache; if it fails on the status code of the POST sent again after
\* the re-login, the client keeps the session and the page of that re-login.
C4_InvalidationClears ==
    HasRedirect(last) =>
        /\ ClearsAtOnce(last)
        /\ last.err # "none" =>
              IF LastFailedOnStatus(last)
              THEN LET relogin == last.net[Len(last.net) - 1] IN
                   /\ relogin.path = "login.php"
                   /\ IssuesToken(relogin.response)
                   /\ last.net[Len(last.net)].method = "POST"
                   /\ session = <<relogin.response.url.session_id,
                                   last.at + TIMEOUT_SESSION>>
                   /\ cache = [main_page |-> <<relogin.response.content,
                                                last.at + TIMEOUT_CACHE>>]
              ELSE session = NoSession /\ cache = EmptyCache

\* A read, made after a read that had filled the cache, was redirected to the
\* login page and failed: session and cache are gone.
C4_Witness ==
    /\ last.op \in ReadOps /\ last.after_read
    /\ HasRedirect(last)
    /\ last.err # "none"
    /\ session = NoSession /\ cache = EmptyCache

(* -------------------------------- C5 ----------------------------------- *)

\* The renewing lookup on an expired session: the session is discarded and
\* _login is called exactly once, in the retry; a lookup that is already the
\* retry raises SessionError and does not log in.
C5_Lookup ==
    /\ \A s \in _get_session(This, FALSE, TRUE) :
          /\ Count(s.trace, "_login") = 1
          /\ Count(s.trace, "_get_session") = 2
          /\ Len(s.net) <= 1
          /\ s.err = "none" =>
                (s.session = <<s.ret, now + TIMEOUT_SESSION>> /\ s.ret \in IssuedTokens)
          /\ s.err # "none" => s.session = NoSession
    /\ \A s \in _get_session(This, TRUE, TRUE) :
          /\ s.err = "SessionError"
          /\ Count(s.trace, "_login") = 0
          /\ s.net = <<>>

\* A read, made when the stored session has expired.
C5_Case == SessionExpired /\ now' = now /\ last'.op \in ReadOps

\* C5 as stated: ... and such a read issues exactly one login request, and
\* the session id becomes the token that login issued.
C5_Original ==
    /\ [](SessionExpired => C5_Lookup)
    /\ [][C5_Case =>
             /\ Cardinality(Sent(last', "login.php")) = 1
             /\ last'.err = "none" =>
                   (/\ session' # NoSession
                    /\ session'[1] = last'.net[1].response.url.session_id)]_vars

\* C5, amended: ... and such a read calls _login exactly once.  With a
\* username or a password stored it issues exactly one login request and no
\* other request, and if that login succeeds the read succeeds and the
\* session id becomes the newly issued token; without them it issues no
\* request and raises LoginError.
C5_RenewOnce ==
    /\ [](SessionExpired => C5_Lookup)
    /\ [][C5_Case =>
             /\ Count(last'.trace, "_login") = 1
             /\ IF HasCredentials
                THEN /\ Len(last'.net) = 1
                     /\ last'.net[1].path = "login.php"
                     /\ IF IssuesToken(last'.net[1].response)
                        THEN /\ last'.err = "none"
                             /\ session' = <<last'.net[1].response.url.session_id,
                                              now + TIMEOUT_SESSION>>
                             /\ session'[1] \in IssuedTokens
                        ELSE /\ last'.err # "none"
                             /\ session' = NoSession
                ELSE /\ last'.net = <<>>
                     /\ last'.err = "LoginError"
                     /\ session' = NoSession]_vars

\* A read found the session expired, logged in once and has the new token.
C5_Witness ==
    /\ last.op \in ReadOps /\ last.err = "none"
    /\ last.trace = <<"_main_page", "_get_session", "_get_session", "_login",
                       "GET login.php">>
    /\ session = <<last.net[1].response.url.session_id, last.at + TIMEOUT_SESSION>>

(* -------------------------------- C6 ----------------------------------- *)

\* Every main-page access that succeeds, served from the cache or not, leaves
\* a session that expires at now + TIMEOUT_SESSION.
C6_Sliding ==
    (now' = now /\ last'.op \in MainPageOps /\ last'.err = "none") =>
        (session' # NoSession /\ session'[2] = now + TIMEOUT_SESSION)

\* A read that follows a successful read by less than TIMEOUT_SESSION.
C6_Case ==
    /\ now' = now
    /\ last.op \in ReadOps /\ last.err = "none"
    /\ last'.op \in ReadOps
    /\ now < last.at + TIMEOUT_SESSION

\* Such a read does not log in and leaves the session id as it was.
C6_NoRelogin ==
    /\ Count(last'.trace, "_login") = 0
    /\ session' # NoSession
    /\ session'[1] = session[1]

\* C6 as stated: every successful main-page access resets the session expiry,
\* and in a sequence of reads less than TIMEOUT_SESSION apart there is no
\* re-login and the session id never changes.
C6_Original ==
    [][C6_Sliding /\ (C6_Case => C6_NoRelogin)]_vars

\* C6, amended: every successful main-page access resets the session expiry,
\* and in a sequence of reads less than TIMEOUT_SESSION apart there is no
\* re-login and the session id never changes, unless the remote redirects a
\* page request to the login page.
C6_SlidingExpiry ==
    [][/\ C6_Sliding
       /\ (C6_Case /\ ~HasRedirect(last')) => C6_NoRelogin]_vars

\* After the expiry the constructor gave the supplied token, a read that
\* follows a read is served from the cache, and the token is still the
\* session id, with a new expiry.
C6_Witness ==
    /\ last.op \in ReadOps /\ last.err = "none"
    /\ last.after_read
    /\ last.net = <<>>
    /\ last.at = now /\ now > TIMEOUT_SESSION
    /\ session = <<SuppliedToken, now + TIMEOUT_SESSION>>

(* -------------------------------- C7 ----------------------------------- *)

\* C7: get_session_id() issues no network request and leaves the session and
\* the cache as they are; it returns the stored token if a session is stored
\* and its expiry has not passed, and None otherwise: an expired session is
\* reported absent, and is neither renewed nor removed.
C7_GetSessionIdIsPure ==
    [][(now' = now /\ last'.op = "get_session_id") =>
          /\ session' = session
          /\ cache' = cache
          /\ last'.net = <<>>
          /\ Count(last'.trace, "_login") = 0
          /\ last'.err = "none"
          /\ last'.ret = IF session # NoSession /\ ~(session[2] < now)
                         THEN session[1] ELSE None]_vars

\* get_session_id() has just reported an expired session as absent; the
\* session is still stored.
C7_Witness ==
    /\ last.op = "get_session_id" /\ last.at = now
    /\ last.ret = None
    /\ session # NoSession /\ session[2] < now

(* -------------------------------- C8 ----------------------------------- *)

\* C8: a client constructed from a session token with login=False has sent
\* no request: the token is stored as it is, to expire TIMEOUT_SESSION after
\* the construction.  As long as that session is the stored one,
\* get_session_id() returns the token without a request until
\* TIMEOUT_SESSION has elapsed.
C8_TokenAccepted ==
    /\ (/\ last.op = "__init__"
        /\ last.args[3] = SuppliedToken
        /\ last.args[4] = FALSE) =>
            /\ last.err = "none"
            /\ last.net = <<>>
            /\ session = <<SuppliedToken, last.at + TIMEOUT_SESSION>>
            /\ cache = EmptyCache
    /\ (Constructed /\ session = <<SuppliedToken, TIMEOUT_SESSION>>) =>
            \A s \in get_session_id(This) :
                /\ s.net = <<>>
                /\ s.err = "none"
                /\ s.ret = IF now <= TIMEOUT_SESSION THEN SuppliedToken ELSE None

\* The client was constructed from the token alone, nothing has been fetched,
\* and at the last moment of the token's life get_session_id() returned it.
C8_Witness ==
    /\ username = None /\ password = None
    /\ cache = EmptyCache
    /\ session = <<SuppliedToken, TIMEOUT_SESSION>>
    /\ last.op = "get_session_id" /\ last.at = now /\ now = TIMEOUT_SESSION
    /\ last.ret = SuppliedToken /\ last.net = <<>>

(* -------------------------------- C9 ----------------------------------- *)

\* C9: a client that has a session token but neither username nor password,
\* and whose page request the remote redirects to the login page, raises
\* LoginError after that one request (no login request is sent) and is left
\* with no session and an empty cache.
C9_NoCredentials ==
    (/\ username = None /\ password = None
     /\ FirstRequestRedirected(last)) =>
        /\ last.net[1].payload.session_id # None
        /\ last.err = "LoginError"
        /\ Len(last.net) = 1
        /\ Sent(last, "login.php") = {}
        /\ session = NoSession
        /\ cache = EmptyCache

\* A read of such a client was redirected to the login page.
C9_Witness ==
    /\ username = None /\ password = None
    /\ last.op \in ReadOps
    /\ FirstRequestRedirected(last)
    /\ last.err = "LoginError"

(* -------------------------------- C10 ---------------------------------- *)

\* After clear_cache() there is no session and no cache entry, and
\* get_session_id() returns None without a request.
C10_Cleared ==
    last.op = "clear_cache" =>
        /\ session = NoSession
        /\ cache = EmptyCache
        /\ last.net = <<>>
        /\ \A s \in get_session_id(This) : s.ret = None /\ s.net = <<>>

\* A read of a client that has neither session nor cache entry: the state
\* clear_cache() leaves.
C10_Case ==
    /\ session = NoSession /\ cache = EmptyCache
    /\ now' = now /\ last'.op \in ReadOps

\* get_session_id() on the client as the step leaves it returns token,
\* without a request.
ThenSessionIdIs(token) ==
    \A s \in get_session_id(Self(username', password', session', cache')) :
        s.ret = token /\ s.net = <<>>

\* C10 as stated: ... and the next read performs exactly one login request,
\* after which get_session_id() returns the token that login issued.
C10_Original ==
    /\ []C10_Cleared
    /\ [][C10_Case =>
             /\ Cardinality(Sent(last', "login.php")) = 1
             /\ last'.err = "none" =>
                   ThenSessionIdIs(last'.net[1].response.url.session_id)]_vars

\* C10, amended: ... and the next read calls _login exactly once.  With a
\* username or a password stored it performs exactly one login request and
\* no other request, and if that login succeeds get_session_id() then
\* returns the token it issued; without them the read performs no request
\* and raises LoginError, and get_session_id() still returns None.
C10_LoginAfterClear ==
    /\ []C10_Cleared
    /\ [][C10_Case =>
             /\ Count(last'.trace, "_login") = 1
             /\ IF HasCredentials
                THEN /\ Len(last'.net) = 1
                     /\ last'.net[1].path = "login.php"
                     /\ IF IssuesToken(last'.net[1].response)
                        THEN /\ last'.err = "none"
                             /\ ThenSessionIdIs(last'.net[1].response.url.session_id)
                        ELSE /\ last'.err # "none"
                             /\ ThenSessionIdIs(None)
                ELSE /\ last'.net = <<>>
                     /\ last'.err = "LoginError"
                     /\ ThenSessionIdIs(None)]_vars

\* clear_cache() has just dropped the session and the page that an earlier
\* read had left, on a client that can log in again.
C10_Witness ==
    /\ last.op = "clear_cache" /\ last.at = now
    /\ last.after_read
    /\ HasCredentials
    /\ session = NoSession /\ cache = EmptyCache

(* -------------------------------- C11 ---------------------------------- *)

\* The call l ended in a login request.
EndedInLogin(l) == l.net # <<>> /\ l.net[Len(l.net)].path = "login.php"

\* The response to the last request of call l.
LastResponse(l) == l.net[Len(l.net)].response

\* The answers to a login request that are not a success: the status is not
\* 200 or the URL carries the failed-login marker, whatever else it carries.
RefusedLogins ==
    {[status_code |-> c, url |-> Url(path, r, t), content |-> "login"] :
        c \in {200, 500}, path \in {"login.php", "main.php"},
        r \in {"failed", None}, t \in {None, "t1"}}
    \ {[status_code |-> 200, url |-> Url(path, None, t), content |-> "login"] :
          path \in {"login.php", "main.php"}, t \in {None, "t1"}}

\* C11: a login whose response status is not 200 raises SessionError, and a
\* login with status 200 whose final URL carries the failed-login marker
\* raises LoginError; in both cases the login stores no session token and
\* leaves the cache as it is, and the call that made it ends without a
\* session.
C11_LoginFailure ==
    /\ \A response \in RefusedLogins :
          LET s == LoginResponse(This, response) IN
          /\ s.err = IF response.status_code # 200 THEN "SessionError"
                     ELSE "LoginError"
          /\ s.session = session
          /\ s.cache = cache
    /\ \A s \in _login(This) :
          (s.net # <<>> /\ ~IssuesToken(LastResponse(s))) =>
             /\ LastResponse(s).status_code # 200 => s.err = "SessionError"
             /\ (LastResponse(s).status_code = 200
                    /\ LastResponse(s).url.r = "failed") => s.err = "LoginError"
             /\ s.err # "none"
             /\ s.session = session
             /\ s.cache = cache
    /\ (EndedInLogin(last) /\ ~IssuesToken(LastResponse(last))) =>
          /\ LastResponse(last).status_code # 200 => last.err = "SessionError"
          /\ (LastResponse(last).status_code = 200
                 /\ LastResponse(last).url.r = "failed") => last.err = "LoginError"
          /\ session = NoSession

\* A read found the session expired and its login was refused: there is no
\* session, and the page cached long ago is still in the cache.
C11_Witness ==
    /\ last.op \in ReadOps
    /\ Len(last.net) = 1 /\ EndedInLogin(last)
    /\ LastResponse(last).url.r = "failed"
    /\ last.err = "LoginError"
    /\ session = NoSession
    /\ cache # EmptyCache

(* -------------------------------- C12 ---------------------------------- *)

\* C12: a login whose response has status 200 and no failed-login marker,
\* but whose final URL has no session_id parameter (absent or blank), fails
\* with ScrapingError and stores no session.
C12_MissingSessionId ==
    (/\ EndedInLogin(last)
     /\ LastResponse(last).status_code = 200
     /\ LastResponse(last).url.r # "failed"
     /\ LastResponse(last).url.session_id \in {None, ""}) =>
        /\ last.err = "ScrapingError"
        /\ session = NoSession

(* -------------------------------- C13 ---------------------------------- *)

\* One step of a write: set_noticeboard, or one request of set_status.
WriteStep ==
    /\ now' = now
    /\ last'.op \in WriteOps
    /\ last'.trace[1] = "_main_page"

\* The step has sent no GET to the main page, and if it succeeded its last
\* request was a POST that was answered by a page, and that page is what the
\* step leaves in the cache.
C13_NotFromCache ==
    /\ \A i \in DOMAIN last'.net :
          last'.net[i].path = "main.php" => last'.net[i].method = "POST"
    /\ last'.err = "none" =>
          /\ last'.net # <<>>
          /\ last'.net[Len(last'.net)].method = "POST"
          /\ IsPage(LastResponse(last'))
          /\ cache' = [main_page |-> <<LastResponse(last').content,
                                        now + TIMEOUT_CACHE>>]
    /\ SessionValid =>
          (last'.net # <<>> /\ last'.net[1].method = "POST")

\* C13 as stated: a write never takes its response from the cache, and every
\* step of it sends a POST, whatever the cache holds.
C13_Original ==
    [][WriteStep => (C13_NotFromCache /\ Sent(last', "main.php") # {})]_vars

\* C13, amended: a write never takes its response from the cache, and every
\* step of it sends a POST, whatever the cache holds, except a step that has
\* to log in first (no session, or one that expired locally) and whose login
\* fails: that step raises the login's error and sends no POST.
C13_WritesAreLive ==
    [][WriteStep =>
         /\ C13_NotFromCache
         /\ Sent(last', "main.php") = {} =>
               /\ ~SessionValid
               /\ last'.err \in {"LoginError", "SessionError", "TypeError"}
               /\ IF HasCredentials
                  THEN /\ Len(last'.net) = 1
                       /\ EndedInLogin(last')
                       /\ ~IssuesToken(LastResponse(last'))
                  ELSE last'.net = <<>>]_vars

\* set_status has posted its three requests although the cache held a valid
\* main page when it began.
C13_Witness ==
    /\ last.op = "set_status" /\ last.err = "none"
    /\ last.fresh
    /\ last.todo = <<>>
    /\ Len(last.sent) = 3
    /\ \A i \in DOMAIN last.sent : last.sent[i][1] = "POST"

(* -------------------------------- C14 ---------------------------------- *)

\* The last call was a write, and it succeeded.
WriteDone ==
    /\ last.op \in WriteOps
    /\ last.err = "none"
    /\ last.op = "set_status" => last.todo = <<>>

\* What the next read can do: the outcomes of _main_page on the object as it
\* is.
NextRead == _main_page(This, FALSE, <<>>, FALSE)

\* C14 as stated: when a successful write returns, the cache holds no valid
\* main page, and the next read issues a network request.
C14_Original ==
    (WriteDone /\ now = last.at) =>
        /\ _from_cache(This, "main_page") = None
        /\ \A s \in NextRead : s.net # <<>>

\* C14, amended: a successful write refreshes the page cache: when it
\* returns, the cache holds the response to its last POST as the main page,
\* valid for TIMEOUT_CACHE, and the session expires TIMEOUT_SESSION later.
\* The next read within TIMEOUT_CACHE issues no network request and works on
\* that response; once TIMEOUT_CACHE has elapsed the next read issues one.
C14_WriteRefreshesCache ==
    WriteDone =>
        /\ cache = [main_page |-> <<LastResponse(last).content,
                                     last.at + TIMEOUT_CACHE>>]
        /\ session # NoSession
        /\ session[2] = last.at + TIMEOUT_SESSION
        /\ IF now < last.at + TIMEOUT_CACHE
           THEN \A s \in NextRead :
                   /\ s.net = <<>>
                   /\ s.err = "none"
                   /\ s.ret = LastResponse(last).content
           ELSE \A s \in NextRead :
                   IF SessionValid
                   THEN /\ s.net # <<>>
                        /\ s.net[1].method = "GET"
                        /\ s.net[1].path = "main.php"
                   ELSE IF HasCredentials
                   THEN s.net # <<>> /\ s.net[1].path = "login.php"
                   ELSE s.net = <<>> /\ s.err = "LoginError"

\* Some time after a successful set_status the page it cached is still valid.
C14_Witness ==
    /\ WriteDone
    /\ last.op = "set_status"
    /\ now > last.at /\ now < last.at + TIMEOUT_CACHE
    /\ _from_cache(This, "main_page") = LastResponse(last).content

(* -------------------------------- C15 ---------------------------------- *)

\* The values of what that the claim lists for a value.
ExpectedWhats(value) ==
    CASE value = NoValue -> <<-5>>
      [] value = <<-5>> -> <<-3, -4, -4>>
      [] value = <<-4>> -> <<-3, -4>>
      [] value = <<4>> -> <<3, 4>>
      [] OTHER -> <<value[1]>>

\* set_status began with an active session, and the remote has answered
\* every request so far with a page.
C15_Case ==
    /\ last.op = "set_status"
    /\ ~(last.args[3].tzinfo = None \/ last.args[3].t < last.at)
    /\ last.active
    /\ \A i \in DOMAIN last.sent : last.sent[i][3]

\* C15: with an active session that the remote accepts, set_status(who,
\* value, t) sends exactly the POST requests listed for value, in that order,
\* and no other request; each carries day = t and the same who.
C15_RequestSequence ==
    C15_Case =>
        LET expected == ExpectedWhats(last.args[2])
            n == Len(last.sent) IN
        /\ last.err = "none"
        /\ n <= Len(expected)
        /\ \A i \in DOMAIN last.sent :
              last.sent[i] = <<"POST", "main.php", TRUE, expected[i],
                               <<last.args[3].t>>, last.args[1]>>
        /\ last.todo = SubSeq(expected, n + 1, Len(expected))

\* set_status(1, -5, t) is over: it has sent three requests, all accepted.
C15_Witness ==
    /\ C15_Case
    /\ last.args[1] = 1 /\ last.args[2] = <<-5>>
    /\ last.todo = <<>>
    /\ Len(last.sent) = 3

(* -------------------------------- C16 ---------------------------------- *)

\* C16: set_status with a timestamp that has no time zone, or one earlier
\* than now, raises ValueError before any request is made, a login included,
\* and leaves the session and the cache as they are.
C16_TimestampChecked ==
    /\ [](( /\ last.op = "set_status"
             /\ (last.args[3].tzinfo = None \/ last.args[3].t < last.at)) =>
                /\ last.err = "ValueError"
                /\ last.net = <<>>
                /\ last.sent = <<>>
                /\ last.trace = <<"set_status">>)
    /\ [][(now' = now /\ last'.op = "set_status" /\ last'.err = "ValueError") =>
             /\ session' = session
             /\ cache' = cache
             /\ last'.net = <<>>]_vars

\* set_status with a timestamp in the past was refused on a client that
\* would have had to log in: it still has no session.
C16_Witness ==
    /\ last.op = "set_status" /\ last.err = "ValueError"
    /\ last.args[3].tzinfo # None /\ last.args[3].t < last.at
    /\ HasCredentials
    /\ session = NoSession /\ cache = EmptyCache

(* -------------------------------- C17 ---------------------------------- *)

\* The rows of a page that are not header rows, in document order.
DataRows(page) == SelectSeq(page.rows, LAMBDA row : ~row.th)

\* The page uses deadlines: its first data row holds the deadline link.
DeadlineLayout(page) ==
    \E i \in DOMAIN page.rows :
        /\ ~page.rows[i].th
        /\ \A j \in 1..(i - 1) : page.rows[j].th
        /\ page.rows[i].vs # <<>>

\* What the timestamp pattern of the page's layout captures in a row.
Captured(page, row) == IF DeadlineLayout(page) THEN row.vs ELSE row.k

\* The cell holds at least one of the four images.
HasImage(cell) == cell.nop + cell.kook + cell.eet + cell.leeg > 0

\* A valid page: the marker cell is there, and every data row holds the
\* timestamp link of the page's layout, with a number, and after the leading
\* cells of the layout (two with deadlines, else one) one cell with an image
\* for every resident.
ValidPage(page) ==
    /\ page.marker
    /\ \A i \in DOMAIN page.rows :
          LET row == page.rows[i]
              lead == IF DeadlineLayout(page) THEN 2 ELSE 1 IN
          ~row.th =>
             /\ Captured(page, row) # <<>>
             /\ Captured(page, row)[1] # ""
             /\ Len(row.cells) = lead + Len(get_residents(page))
             /\ \A j \in DOMAIN row.cells : j > lead => HasImage(row.cells[j])

\* C17: for every valid page, every row that get_statuses returns has as
\* many statuses as get_residents returns names for that page, with and
\* without deadlines.
C17_RowWidth ==
    (last.op = "get_statuses" /\ ValidPage(CachedPage)) =>
        /\ last.err = "none"
        /\ \A i \in DOMAIN last.ret :
              Len(last.ret[i].statuses) = Len(get_residents(CachedPage))

\* get_statuses has returned two rows of a valid page with deadlines and two
\* residents.
C17_Witness ==
    /\ last.op = "get_statuses"
    /\ ValidPage(CachedPage) /\ DeadlineLayout(CachedPage)
    /\ Len(get_residents(CachedPage)) = 2
    /\ Len(last.ret) = 2
    /\ Len(last.ret[1].statuses) = 2

(* -------------------------------- C18 ---------------------------------- *)

\* The rules of the claim, the first that matches: the value of a cell with
\* the counts blank, cook, diner and empty and the multiplier extra, or
\* ScrapingError.
FirstRule(blank, cook, diner, empty, extra) ==
    IF blank > 0 THEN [err |-> "none", value |-> <<0>>]
    ELSE IF cook > 0 /\ diner = 0 THEN [err |-> "none", value |-> <<cook>>]
    ELSE IF cook > 0 /\ diner > 0 THEN [err |-> "none", value |-> <<cook + diner * extra>>]
    ELSE IF diner > 0 THEN [err |-> "none", value |-> <<0 - (diner * extra)>>]
    ELSE IF empty > 0 THEN [err |-> "none", value |-> NoValue]
    ELSE [err |-> "ScrapingError", value |-> NoValue]

\* The rule applied to a cell of a page: extra is the first number in the
\* cell's text, and 1 if there is none.
Ruled(cell) ==
    FirstRule(cell.nop, cell.kook, cell.eet, cell.leeg,
              IF cell.digits = <<>> THEN 1 ELSE cell.digits[1])

\* The limit lets get_statuses parse the first data row.
ParsesFirstRow(limit) == limit = NoLimit \/ limit[1] >= 0

\* C18: every status that get_statuses returns is what the first matching
\* rule gives for its cell, for every combination of the four counts and of
\* the multiplier; and a cell without any image raises ScrapingError.
C18_Classifier ==
    last.op = "get_statuses" =>
        LET page == CachedPage
            rows == DataRows(page)
            lead == IF DeadlineLayout(page) THEN 2 ELSE 1 IN
        /\ last.err = "none" =>
              \A i \in DOMAIN last.ret :
                 \A j \in DOMAIN last.ret[i].statuses :
                    /\ Ruled(rows[i].cells[j + lead]).err = "none"
                    /\ last.ret[i].statuses[j].value =
                          Ruled(rows[i].cells[j + lead]).value
        /\ (/\ page.marker /\ rows # <<>> /\ ParsesFirstRow(last.args[1])
            /\ Captured(page, rows[1]) # <<>>
            /\ Captured(page, rows[1])[1] # ""
            /\ \E j \in DOMAIN rows[1].cells :
                  j > lead /\ Ruled(rows[1].cells[j]).err # "none") =>
               last.err = "ScrapingError"

\* A cell with one cook image, two diner images and the number 3 in its
\* text has been classified as 1 + 2 * 3.
C18_Witness ==
    /\ last.op = "get_statuses" /\ last.err = "none"
    /\ Len(last.ret) = 1
    /\ DataRows(CachedPage)[1].cells = <<LeadCell, Cell(0, 1, 2, 0, <<3>>)>>
    /\ Len(last.ret[1].statuses) = 1
    /\ last.ret[1].statuses[1].value = <<7>>

(* -------------------------------- C19 ---------------------------------- *)

\* C19: if the markup of a data row does not match the timestamp pattern of
\* the page's layout, or matches with an empty number, get_statuses fails
\* with ScrapingError.
C19_TimestampMismatch ==
    (/\ last.op = "get_statuses"
     /\ CachedPage.marker
     /\ DataRows(CachedPage) # <<>>
     /\ ParsesFirstRow(last.args[1])
     /\ \/ Captured(CachedPage, DataRows(CachedPage)[1]) = <<>>
        \/ Captured(CachedPage, DataRows(CachedPage)[1]) = <<"">>) =>
        last.err = "ScrapingError"

(* -------------------------------- C20 ---------------------------------- *)

\* The rows returned are the first rows of the page's data rows, in document
\* order.
IsPrefix(ret, page) ==
    /\ Len(ret) <= Len(DataRows(page))
    /\ \A i \in DOMAIN ret :
          ret[i].timestamp = ParseInt(Captured(page, DataRows(page)[i])[1])

\* C20 as stated: for every integer n, get_statuses(limit=n) returns no more
\* than n rows (none for a negative n), a prefix of the page's data rows in
\* document order; without a limit it returns all data rows.
C20_Original ==
    (last.op = "get_statuses" /\ ValidPage(CachedPage)) =>
        /\ last.err = "none"
        /\ IsPrefix(last.ret, CachedPage)
        /\ IF last.args[1] = NoLimit
           THEN Len(last.ret) = Len(DataRows(CachedPage))
           ELSE Len(last.ret) <= IF last.args[1][1] < 0 THEN 0 ELSE last.args[1][1]

\* C20, amended: for every positive integer n, get_statuses(limit=n) returns
\* the first n data rows of the page in document order, or all of them if
\* there are fewer; for a negative n it returns no row; and for n = 0, as
\* without a limit, it returns all data rows in document order.
C20_Limit ==
    (last.op = "get_statuses" /\ ValidPage(CachedPage)) =>
        LET limit == last.args[1]
            all == Len(DataRows(CachedPage)) IN
        /\ last.err = "none"
        /\ IsPrefix(last.ret, CachedPage)
        /\ Len(last.ret) =
              IF limit = NoLimit \/ limit = <<0>> THEN all
              ELSE IF limit[1] < 0 THEN 0
              ELSE IF limit[1] < all THEN limit[1] ELSE all

\* get_statuses(limit=1) has returned the first of the data rows of a page
\* that lists day 2 before day 1.
C20_Witness ==
    /\ last.op = "get_statuses" /\ last.args[1] = <<1>>
    /\ ValidPage(CachedPage)
    /\ Len(DataRows(CachedPage)) = 3
    /\ Captured(CachedPage, DataRows(CachedPage)[1]) = <<"2">>
    /\ Captured(CachedPage, DataRows(CachedPage)[2]) = <<"1">>
    /\ Len(last.ret) = 1
    /\ last.ret[1].timestamp = 2

(* -------------------------------- C21 ---------------------------------- *)

\* C21: in every result of get_statuses, every status of the first returned
\* row has a last_changed, and every status of every later row has none.
C21_LastChangedFirstRow ==
    (last.op = "get_statuses" /\ last.err = "none") =>
        \A i \in DOMAIN last.ret :
           \A j \in DOMAIN last.ret[i].statuses :
              IF i = 1
              THEN last.ret[i].statuses[j].last_changed # NoTime
              ELSE last.ret[i].statuses[j].last_changed = NoTime

\* get_statuses has returned two rows whose cells both carry the text
\* "onveranderd sinds 12:30": the status of the first row has a last_changed,
\* the status of the second has none.
C21_Witness ==
    /\ last.op = "get_statuses" /\ last.err = "none"
    /\ Len(last.ret) = 2
    /\ \A i \in 1..2 : DataRows(CachedPage)[i].cells[2].changed = <<12, 30>>
    /\ last.ret[1].statuses[1].last_changed # NoTime
    /\ last.ret[2].statuses[1].last_changed = NoTime

(* -------------------------------- C22 ---------------------------------- *)

\* The absolute value of a status value; unset counts as nothing.
Magnitude(value) ==
    IF value = NoValue THEN 0
    ELSE IF value[1] < 0 THEN 0 - value[1] ELSE value[1]

RECURSIVE SumOfMagnitudes(_)
\* The sum of the absolute values of the statuses.
SumOfMagnitudes(statuses) ==
    IF statuses = <<>> THEN 0
    ELSE Magnitude(Head(statuses).value) + SumOfMagnitudes(Tail(statuses))

\* C22: for every StatusRow whose values are integers or unset,
\* get_count(indices) is the sum of the absolute values of the set statuses
\* at the given indices (all of them when indices is omitted), and
\* get_count() = get_count(get_cooks()) + get_count(get_diners()).
C22_Count ==
    last.op = "get_count" =>
        LET self == last.self
            indices == last.args[1] IN
        IF indices = NoIndices
        THEN /\ last.err = "none"
             /\ last.ret = SumOfMagnitudes(self.statuses)
             /\ get_cooks(self).err = "none"
             /\ get_diners(self).err = "none"
             /\ get_count(self, <<get_cooks(self).ret>>).err = "none"
             /\ get_count(self, <<get_diners(self).ret>>).err = "none"
             /\ last.ret = get_count(self, <<get_cooks(self).ret>>).ret
                             + get_count(self, <<get_diners(self).ret>>).ret
        ELSE (\A k \in DOMAIN indices[1] :
                 indices[1][k] >= 0 /\ indices[1][k] < Len(self.statuses)) =>
                /\ last.err = "none"
                /\ last.ret = SumOfMagnitudes([k \in DOMAIN indices[1] |->
                                                  self.statuses[indices[1][k] + 1]])

(* -------------------------------- C23 ---------------------------------- *)

\* The list is ascending.
Ascending(list) == \A i, j \in DOMAIN list : i < j => list[i] < list[j]

\* The elements of the list.
Elements(list) == {list[i] : i \in DOMAIN list}

\* C23: for every StatusRow, rows with unset statuses included, get_cooks()
\* (value > 0), get_diners() (value < 0), get_nones() (value = 0) and
\* get_unknowns() (value unset) each return an ascending list of indices; the
\* four lists are pairwise disjoint and together hold every index of the row
\* exactly once; get_diners_and_cooks() is the cooks followed by the diners.
C23_Partition ==
    LET self == last.self
        n == Len(self.statuses)
        cooks == get_cooks(self)
        diners == get_diners(self)
        nones == get_nones(self)
        unknowns == get_unknowns(self) IN
    last.op \in {"get_cooks", "get_diners", "get_nones", "get_unknowns",
                 "get_diners_and_cooks"} =>
        /\ last.err = "none"
        /\ cooks.err = "none" /\ diners.err = "none"
        /\ nones.err = "none" /\ unknowns.err = "none"
        /\ Elements(cooks.ret) =
              {i \in 0..(n - 1) : Magnitude(self.statuses[i + 1].value) > 0
                                     /\ self.statuses[i + 1].value[1] > 0}
        /\ Elements(diners.ret) =
              {i \in 0..(n - 1) : Magnitude(self.statuses[i + 1].value) > 0
                                     /\ self.statuses[i + 1].value[1] < 0}
        /\ Elements(nones.ret) = {i \in 0..(n - 1) : self.statuses[i + 1].value = <<0>>}
        /\ Elements(unknowns.ret) =
              {i \in 0..(n - 1) : self.statuses[i + 1].value = NoValue}
        /\ \A list \in {cooks.ret, diners.ret, nones.ret, unknowns.ret} :
              Ascending(list)
        /\ Len(cooks.ret) + Len(diners.ret) + Len(nones.ret) + Len(unknowns.ret) = n
        /\ last.op = "get_cooks" => last.ret = cooks.ret
        /\ last.op = "get_diners" => last.ret = diners.ret
        /\ last.op = "get_nones" => last.ret = nones.ret
        /\ last.op = "get_unknowns" => last.ret = unknowns.ret
        /\ last.op = "get_diners_and_cooks" => last.ret = cooks.ret \o diners.ret

(* -------------------------------- C24 ---------------------------------- *)

\* The token of a session, None if there is no session.
Token(s) == IF s = NoSession THEN None ELSE s[1]

\* A call that ended in _main_page and succeeded without a login.
PageStep ==
    /\ now' = now
    /\ last'.op \in MainPageOps
    /\ last'.err = "none"
    /\ Count(last'.trace, "_login") = 0

\* C24: a successful main-page request (cache miss, cache hit or POST) never
\* changes the session token, whatever session id the URL of the response
\* carries; it only moves the expiry of the session.  The token changes only
\* through a login, through clear_cache or when an invalid session is
\* detected (a redirect to the login page, or the local expiry).
C24_TokenKept ==
    [][/\ PageStep =>
             /\ session # NoSession
             /\ session' = <<session[1], now + TIMEOUT_SESSION>>
       /\ (now' = now /\ Token(session') # Token(session)) =>
             \/ last'.op = "clear_cache"
             \/ Count(last'.trace, "_login") > 0
             \/ Count(last'.trace, "clear_cache") > 0]_vars

\* A page request was answered with a page whose URL carries another session
\* id than the one sent; the client still has the token it sent, with a new
\* expiry.
C24_Witness ==
    /\ last.op \in MainPageOps /\ last.err = "none"
    /\ last.at = now
    /\ Len(last.net) = 1
    /\ last.net[1].path = "main.php"
    /\ last.net[1].response.url.session_id \in IssuedTokens
    /\ last.net[1].response.url.session_id # last.net[1].payload.session_id
    /\ session = <<last.net[1].payload.session_id, now + TIMEOUT_SESSION>>

(* -------------------------------- C25 ---------------------------------- *)

\* C25: deadline mode is decided once, from the first data row, and applied
\* to the whole result: if that row holds the deadline link every row
\* returned has its own timestamp as deadline, else every row returned has
\* no deadline; and has_deadline_passed() is False for every row without a
\* deadline.
C25_DeadlineMode ==
    /\ (last.op = "get_statuses" /\ last.err = "none") =>
          /\ \A i \in DOMAIN last.ret :
                /\ last.ret[i].deadline =
                      IF DeadlineLayout(CachedPage) THEN <<last.ret[i].timestamp>>
                      ELSE NoTime
                /\ last.ret[i].deadline = NoTime =>
                      has_deadline_passed(last.ret[i]) = FALSE
          /\ \/ \A i \in DOMAIN last.ret : last.ret[i].deadline = <<last.ret[i].timestamp>>
             \/ \A i \in DOMAIN last.ret : last.ret[i].deadline = NoTime
    /\ (last.op = "has_deadline_passed" /\ last.self.deadline = NoTime) =>
          last.ret = FALSE

\* Long after its day has_deadline_passed() is False for the second row of a
\* list whose first row has no deadline link: that row holds the link, and
\* was returned without a deadline.
C25_Witness ==
    /\ last.op = "has_deadline_passed"
    /\ CachedPage.rows = <<MixedRow(FALSE), MixedRow(TRUE)>>
    /\ last.self.timestamp = 2
    /\ last.self.deadline = NoTime
    /\ Len(last.self.statuses) = 2
    /\ now > last.self.timestamp
    /\ last.ret = FALSE

(* -------------------------------- C26 ---------------------------------- *)

\* The multiplier read from the text of a cell.
Extra(cell) == IF cell.digits = <<>> THEN 1 ELSE cell.digits[1]

\* The cell holds diner markers and neither blank nor cook markers.
DinersOnly(cell) == cell.eet > 0 /\ cell.nop = 0 /\ cell.kook = 0

\* The cell holds cook markers and no blank marker.
Cooks(cell) == cell.kook > 0 /\ cell.nop = 0

\* The cell of status j of row i of a result of get_statuses.
CellOf(i, j) ==
    DataRows(CachedPage)[i].cells[j + IF DeadlineLayout(CachedPage) THEN 2 ELSE 1]

\* C26 as stated: for every cell and every multiplier read from its text (any
\* non-negative integer), a cell with diner markers only yields a strictly
\* negative value, a cell with cook markers and no blank marker a strictly
\* positive one, and the value 0 comes only from a cell with a blank marker.
C26_Original ==
    (last.op = "get_statuses" /\ last.err = "none") =>
        \A i \in DOMAIN last.ret :
           \A j \in DOMAIN last.ret[i].statuses :
              LET cell == CellOf(i, j)
                  value == last.ret[i].statuses[j].value IN
              /\ DinersOnly(cell) => (value # NoValue /\ value[1] < 0)
              /\ Cooks(cell) => (value # NoValue /\ value[1] > 0)
              /\ value = <<0>> => cell.nop > 0

\* C26, amended: for every cell and every multiplier of at least 1 read from
\* its text (or none) a cell with diner markers only yields a strictly
\* negative value; with the multiplier 0 it yields 0.  A cell with cook
\* markers and no blank marker yields a strictly positive value for every
\* multiplier, and the value 0 comes only from a cell with a blank marker or
\* from a diners-only cell with the multiplier 0.
C26_SignEncodesRole ==
    (last.op = "get_statuses" /\ last.err = "none") =>
        \A i \in DOMAIN last.ret :
           \A j \in DOMAIN last.ret[i].statuses :
              LET cell == CellOf(i, j)
                  value == last.ret[i].statuses[j].value IN
              /\ DinersOnly(cell) =>
                    /\ value # NoValue
                    /\ IF Extra(cell) >= 1 THEN value[1] < 0 ELSE value[1] = 0
              /\ Cooks(cell) => (value # NoValue /\ value[1] > 0)
              /\ value = <<0>> =>
                    (cell.nop > 0 \/ (DinersOnly(cell) /\ Extra(cell) = 0))

\* A cell with two diner images and the number 0 in its text has been
\* classified as 0.
C26_Witness ==
    /\ last.op = "get_statuses" /\ last.err = "none"
    /\ Len(last.ret) = 1
    /\ CellOf(1, 1) = Cell(0, 0, 2, 0, <<0>>)
    /\ last.ret[1].statuses[1].value = <<0>>

(* -------------------------------- C27 ---------------------------------- *)

\* The midnight, in the time zone of the remote, that starts the local
\* calendar day of t, on a day without a change of the offset.
LocalMidnight(t) ==
    CHOOSE m \in (t - MinutesPerDay + 1)..t : (m + utcoffset(t)) % MinutesPerDay = 0

\* The time of day that the text of a cell names, in minutes; 0 without it.
SinceMidnight(cell) ==
    IF cell.changed = <<>> THEN 0 ELSE cell.changed[1] * 60 + cell.changed[2]

\* The local calendar day of t is its calendar day in UTC.
SameDate(t) == (t % MinutesPerDay) + utcoffset(t) < MinutesPerDay

\* C27 as stated: the last_changed of a status of the first row is the local
\* midnight that starts the local calendar day of the row's timestamp (so
\* last_changed <= timestamp < last_changed + 24h without the text), plus the
\* hours and minutes of the text "onveranderd sinds HH:MM" if the cell holds
\* it; for every timestamp, one exactly on local midnight included.
C27_Original ==
    (last.op = "get_statuses" /\ last.err = "none" /\ last.ret # <<>>) =>
        LET row == last.ret[1] IN
        \A j \in DOMAIN row.statuses :
           /\ row.statuses[j].last_changed =
                 <<LocalMidnight(row.timestamp) + SinceMidnight(CellOf(1, j))>>
           /\ CellOf(1, j).changed = <<>> =>
                 /\ row.statuses[j].last_changed[1] <= row.timestamp
                 /\ row.timestamp < row.statuses[j].last_changed[1] + MinutesPerDay

\* C27, amended: the last_changed of a status of the first row is the local
\* midnight of the calendar day that holds the row's timestamp in UTC: the
\* midnight in UTC that starts that day, less the offset of the remote's
\* time zone at the timestamp; plus the hours and minutes of the text if the
\* cell holds it.  It is the midnight that starts the local calendar day of
\* the timestamp when that day is the same in UTC; for a timestamp in the
\* first hours of a local day, local midnight included, it is the local
\* midnight one day earlier, and timestamp >= last_changed + 24h.
C27_LastChangedMidnight ==
    (last.op = "get_statuses" /\ last.err = "none" /\ last.ret # <<>>) =>
        LET row == last.ret[1]
            offset == utcoffset(row.timestamp) IN
        \A j \in DOMAIN row.statuses :
           LET midnight == row.statuses[j].last_changed[1] - SinceMidnight(CellOf(1, j)) IN
           /\ row.statuses[j].last_changed # NoTime
           /\ (midnight + offset) % MinutesPerDay = 0
           /\ midnight + offset <= row.timestamp
           /\ row.timestamp < midnight + offset + MinutesPerDay
           /\ IF SameDate(row.timestamp)
              THEN /\ midnight = LocalMidnight(row.timestamp)
                   /\ midnight <= row.timestamp
                   /\ row.timestamp < midnight + MinutesPerDay
              ELSE /\ midnight = LocalMidnight(row.timestamp) - MinutesPerDay
                   /\ row.timestamp >= midnight + MinutesPerDay

\* The first row's timestamp is 23:00 UTC, midnight in Amsterdam, and its
\* cell holds "onveranderd sinds 12:30": last_changed is 12:30 of the local
\* day that ends at the timestamp.
C27_Witness ==
    /\ last.op = "get_statuses" /\ last.err = "none"
    /\ last.ret # <<>>
    /\ last.ret[1].timestamp = 1380
    /\ LocalMidnight(1380) = 1380
    /\ CellOf(1, 1).changed = <<12, 30>>
    /\ last.ret[1].statuses[1].last_changed = <<1380 - MinutesPerDay + 750>>

(* -------------------------------- C28 ---------------------------------- *)

\* The response to the request was stored as the main page: a login that
\* issued a token, or a main-page request answered by a page.
Stored(request) ==
    \/ request.path = "login.php" /\ IssuesToken(request.response)
    \/ request.path = "main.php" /\ IsPage(request.response)

\* When the main page in the cache was received from the network, before
\* the next call: the last call tells, or the constructor's requests; <<>>
\* if no page was ever received.
ReceivedBefore ==
    IF "received" \in DOMAIN last THEN last.received
    ELSE IF \E i \in DOMAIN last.net : Stored(last.net[i]) THEN <<last.at>>
    ELSE <<>>

\* When the main page that the call leaves in the cache was received from
\* the network: now if the call stored a response.
ReceivedAt(self) ==
    IF \E i \in DOMAIN self.net : Stored(self.net[i]) THEN <<now>>
    ELSE ReceivedBefore

\* A read of a client that polls the list: Read, with the time the page it
\* leaves in the cache was received.
Poll ==
    /\ Constructed
    /\ \E op \in ReadOps :
          \E self \in _main_page(This, FALSE, <<>>, FALSE) :
             /\ username' = self.username
             /\ password' = self.password
             /\ session' = self.session
             /\ cache' = self.cache
             /\ last' = [op |-> op, args |-> <<>>, err |-> self.err, ret |-> self.ret,
                         trace |-> self.trace, net |-> self.net, at |-> now,
                         after_read |-> last.op \in ReadOps /\ last.err = "none",
                         received |-> ReceivedAt(self)]
             /\ now' = now

NextPoll == Poll \/ Tick

SpecPoll == Init /\ [][NextPoll]_vars

StepRaised ==
    /\ last.op = "set_status"
    /\ last.err \notin {"none", "ValueError"}
    /\ Len(ExpectedWhats(last.args[2])) > 1

\* The values of what of the POST requests in a sequence of requests.
PostedWhats(requests) ==
    LET posts == SelectSeq(requests, LAMBDA r : r[1] = "POST") IN
    [i \in DOMAIN posts |-> posts[i][4]]

\* A call that has raised stays as it is: nothing more is sent.
NothingAfterError ==
    (last.op = "set_status" /\ last.err # "none") => last' = last

\* C29 as stated: when a step of a set_status of several steps raises,
\* set_status stops there: the requests sent are exactly a prefix of the
\* listed sequence, no later step and no compensating request is sent, and
\* the error propagates to the caller.
C29_Original ==
    /\ [](StepRaised =>
             LET expected == ExpectedWhats(last.args[2])
                 whats == PostedWhats(last.sent) IN
             /\ Len(whats) <= Len(expected)
             /\ whats = SubSeq(expected, 1, Len(whats))
             /\ ~InProgress)
    /\ [][NothingAfterError]_vars

\* C29, amended: when a step of set_status raises, set_status stops there:
\* the steps begun are a prefix of the listed sequence, every step before
\* the one that raised ended in a POST answered by a page, no later step and
\* no compensating request is sent, and the error propagates to the caller.
\* The POST requests of a step all carry the step's what, the day and the
\* resident: one POST, or two if the first was redirected to the login page
\* and the re-login succeeded; a step that has to log in and fails sends
\* none.
C29_StopsAtFailure ==
    /\ [](StepRaised =>
             LET expected == ExpectedWhats(last.args[2])
                 n == Len(last.steps) IN
             /\ n >= 1 /\ n <= Len(expected)
             /\ last.todo = SubSeq(expected, n + 1, Len(expected))
             /\ ~InProgress
             /\ last.err \in {"SessionError", "LoginError", "TypeError"}
             /\ \A k \in 1..n :
                   LET step == last.steps[k]
                       posts == SelectSeq(step, LAMBDA r : r[1] = "POST") IN
                   /\ \A i \in DOMAIN posts :
                         /\ posts[i][2] = "main.php"
                         /\ posts[i][4] = expected[k]
                         /\ posts[i][5] = <<last.args[3].t>>
                         /\ posts[i][6] = last.args[1]
                   /\ Len(posts) <= 2
                   /\ Len(posts) = 2 => ~posts[1][3]
                   /\ k < n => (step # <<>> /\ step[Len(step)][1] = "POST"
                                  /\ step[Len(step)][3])
                   /\ k = n => (step = <<>> \/ ~step[Len(step)][3]
                                  \/ step[Len(step)][1] # "POST"))
    /\ [][NothingAfterError]_vars

\* set_status(who, -5, t): the first request was accepted, the second was
\* answered with an error status and raised; the third has not been sent.
C29_Witness ==
    /\ StepRaised
    /\ last.args[2] = <<-5>>
    /\ Len(last.steps) = 2
    /\ PostedWhats(last.sent) = <<-3, -4>>
    /\ last.err = "SessionError"
    /\ last.todo = <<-4>>

(* -------------------------------- C30 ---------------------------------- *)

\* The clock of a client that is followed through one call stops here.
MaxCallTime == 10

\* MayRetry that retries whatever the flag says.
MayRetry_Always(is_retry) == TRUE

\* "Determine to retry or not": the test on is_retry in _get_session and in
\* _main_page.
MayRetry(is_retry) == ~is_retry

\* One call of _main_page begins on a client that has been constructed.
\* last tells where the call is: pc is the statement to execute next,
\* is_retry and gs_retry are the flags of the running _main_page and of the
\* running _get_session, entered and sessions count how often each has been
\* entered, pages and logins the requests sent to main.php and to login.php.
BeginCall ==
    /\ last.op = "__init__" /\ Constructed
    /\ \E post \in BOOLEAN :
          last' = [op |-> "_main_page", args |-> <<post>>, pc |-> "_get_session",
                   is_retry |-> FALSE, gs_retry |-> FALSE, err |-> "none",
                   entered |-> 1, sessions |-> 1, pages |-> 0, logins |-> 0]
    /\ UNCHANGED <<username, password, session, cache, now>>

\* The call is at statement pc.
At(pc) == last.op = "_main_page" /\ last.pc = pc

\* The call ends: it raises e, or returns if e is "none".
End(e) == [last EXCEPT !.pc = "done", !.err = e]

\* _get_session, "Start a session": log in if there is no session.
StartSession ==
    /\ At("_get_session")
    /\ IF session = NoSession
       THEN \E s \in _login(This) :
               /\ session' = s.session
               /\ cache' = s.cache
               /\ last' = [(IF s.err = "none" THEN [last EXCEPT !.pc = "check"]
                            ELSE End(s.err))
                           EXCEPT !.logins = @ + Len(s.net)]
       ELSE /\ last' = [last EXCEPT !.pc = "check"]
            /\ UNCHANGED <<session, cache>>
    /\ UNCHANGED <<username, password, now>>

\* _get_session, "Check if session is still valid".
CheckValid ==
    /\ At("check")
    /\ IF session[2] < now_
       THEN IF MayRetry(last.gs_retry)
            THEN /\ session' = NoSession
                 /\ last' = [last EXCEPT !.pc = "_get_session", !.gs_retry = TRUE,
                                         !.sessions = @ + 1]
            ELSE /\ last' = End("SessionError")
                 /\ UNCHANGED session
       ELSE /\ last' = [last EXCEPT !.pc = "request"]
            /\ UNCHANGED session
    /\ UNCHANGED <<username, password, cache, now>>

\* _main_page from "Prepare request" on: the page is taken from the cache or
\* requested, and the response is handled.
SendRequest ==
    /\ At("request")
    /\ LET cached == _from_cache(This, "main_page") IN
       IF ~last.args[1] /\ cached # None
       THEN /\ session' = UpdateCacheAndSession(This, cached).session
            /\ cache' = UpdateCacheAndSession(This, cached).cache
            /\ last' = End("none")
       ELSE \E response \in Responses :
               IF response.status_code # 200
               THEN /\ last' = [End("SessionError") EXCEPT !.pages = @ + 1]
                    /\ UNCHANGED <<session, cache>>
               ELSE IF response.url.path = "login.php"
               THEN /\ session' = clear_cache(This).session
                    /\ cache' = clear_cache(This).cache
                    /\ last' = IF MayRetry(last.is_retry)
                               THEN [last EXCEPT !.pc = "_get_session",
                                                 !.is_retry = TRUE, !.gs_retry = FALSE,
                                                 !.entered = @ + 1, !.sessions = @ + 1,
                                                 !.pages = @ + 1]
                               ELSE [End("SessionError") EXCEPT !.pages = @ + 1]
               ELSE /\ session' = UpdateCacheAndSession(This, response.content).session
                    /\ cache' = UpdateCacheAndSession(This, response.content).cache
                    /\ last' = [End("none") EXCEPT !.pages = @ + 1]
    /\ UNCHANGED <<username, password, now>>

\* Time passes, before the call and between any two of its statements.
TickCall ==
    /\ now < MaxCallTime
    /\ now' = now + 1
    /\ UNCHANGED <<username, password, session, cache, last>>

\* The statements of the call.
Statement == StartSession \/ CheckValid \/ SendRequest

NextCall == BeginCall \/ StartSession \/ CheckValid \/ SendRequest \/ TickCall

\* The interpreter goes on to the next statement; every request is answered.
SpecCall == Init /\ [][NextCall]_vars /\ WF_vars(Statement)

\* C30: for every sequence of responses of the remote and every passage of
\* time, one call of _main_page ends, by a return or by an exception, after
\* at most two requests to the main page and at most four login requests:
\* _main_page is entered at most twice, and _get_session at most twice for
\* each time _main_page calls it.
C30_Terminates ==
    /\ [](last.op = "_main_page" =>
             /\ last.pages <= 2
             /\ last.logins <= 4
             /\ last.entered <= 2
             /\ last.sessions <= 2 * last.entered)
    /\ (last.op = "_main_page") ~> (last.op = "_main_page" /\ last.pc = "done")

\* A call has ended after two requests to the main page and four logins:
\* twice the session of a login had expired before it was checked.
C30_Witness ==
    /\ At("done")
    /\ last.pages = 2
    /\ last.logins = 4
    /\ last.entered = 2
    /\ last.sessions = 4

====
